---------------------------- MODULE Spec2Model ----------------------------
(***************************************************************************)
(* A model of the chatbot generator (src/generate_chatbot.py): the         *)
(* resolution of the LLM parameters and of the system prompt from the      *)
(* hand-off files the operator edits, the placeholder renderer, the        *)
(* stylesheet, and the run of main around the overwrite confirmation; and  *)
(* of the two scripts a generated chatbot gets, templates/llm.py and       *)
(* templates/update_config.py.                                             *)
(*                                                                         *)
(* Texts are sequences of lexical chunks.  A chunk stands for a piece of   *)
(* text that the code treats as a unit: a marker it searches for, a run    *)
(* of whitespace, a run of other characters.  No marker of the code        *)
(* overlaps itself or another marker, except that the opening fence of a   *)
(* json block begins with the three backquotes of a closing fence, which   *)
(* the fence search below takes into account.                              *)
(***************************************************************************)
EXTENDS Integers, Sequences, FiniteSets, TLC

VARIABLES
    \* inputs of a run, fixed when it starts
    tmplPrompt,           \* TEMPLATE_DIR/system_prompt.md exists
    tmplParams,           \* TEMPLATE_DIR/llm_parameters.json exists
    chatbot_description,  \* the operator's description (never empty, line 1118)
    chatbot_name,         \* the operator's name for the chatbot (lines 1111-1115)
    baseCss,              \* ./src/static/css/style.css    [exists, text]
    registries,           \* the module's tables (lines 28-68), name -> value
    \* the working directory
    promptFile,           \* ./system_prompt.md      [exists, text]
    paramsFile,           \* ./llm_parameters.json   [exists, text]
    fsLog,                \* the file system changes the run has made so far
    \* get_system_prompt
    ppc, content, system_prompt,
    \* get_llm_parameters
    lpc, llmContent, llm_params,
    \* copy_and_update_template_files
    srcTree,              \* template_dir: relative path of a file -> its text
    config,               \* the configuration map, in the order of its items
    tgtTree,              \* the files written under target_dir
    pending,              \* the files the walk has still to visit
    failed,               \* the file whose read raised
    wpc,
    \* main
    targetDir,            \* ./<chatbot_name>       [exists, entries]
    step,                 \* the generation step main is to run next
    mpc,
    theme_name,           \* the key of the theme the operator chose
    theme_colors,         \* its entry in THEME_COLORS
    font_style,           \* the entry of FONT_STYLES the operator chose
    main_config,          \* the config map of lines 1175-1189
    cssFile,              \* <target>/src/static/css/style.css  [exists, text]
    llmConfigFile,        \* <target>/src/config/llm_config.json
    gpc,                  \* generate_custom_css called on its own
    \* templates/llm.py
    DEFAULT_PARAMS,       \* the module's parameter map (lines 9-21)
    call,                 \* the arguments of a call of generate_response
    payload,              \* the request body of the call
    reply,                \* what the backend made of the request (response)
    result,               \* what generate_response returned
    cpc,
    \* templates/update_config.py
    args,                 \* the parsed command line (line 134)
    prompt_file,          \* the file --prompt-file names  [exists, readable, text]
    upd_config,           \* config, the map main loads and updates
    param_updates,        \* the update map of lines 165-188
    upc

envVars    == <<tmplPrompt, tmplParams, chatbot_description, chatbot_name, baseCss,
                registries>>
fsVars     == <<promptFile, paramsFile, fsLog>>
promptVars == <<ppc, content, system_prompt>>
llmVars    == <<lpc, llmContent, llm_params>>
renderVars == <<srcTree, config, tgtTree, pending, failed, wpc>>
mainVars   == <<targetDir, step, mpc>>
uiVars     == <<theme_name, theme_colors, font_style, main_config,
                cssFile, llmConfigFile, gpc>>
clientVars == <<DEFAULT_PARAMS, call, payload, reply, result, cpc>>
updateVars == <<args, prompt_file, upd_config, param_updates, upc>>
outerVars  == <<renderVars, mainVars, uiVars, clientVars, updateVars>>
vars       == <<envVars, fsVars, promptVars, llmVars, outerVars>>

(***************************************************************************)
(* Bounds of the model.                                                    *)
(***************************************************************************)
MaxParamLen == 4     \* chunks in an edited llm_parameters.json

MaxPromptLen == 4    \* chunks in an edited system_prompt.md

MaxTreeSize == 4     \* chunks in all the files of a template tree

(***************************************************************************)
(* Sequences.                                                              *)
(***************************************************************************)
SeqsUpTo(S, n) == UNION {[1..m -> S] : m \in 0..n}

Min(S) == CHOOSE x \in S : \A y \in S : x <= y

NoObj == [k \in {} |-> ""]

\* copy_and_update_template_files is not running
RenderIdle ==
    /\ srcTree = NoObj
    /\ config = <<>>
    /\ tgtTree = NoObj
    /\ pending = {}
    /\ failed = {}
    /\ wpc = "idle"

NoDir == [exists |-> FALSE, entries |-> {}]

\* main is not running
MainIdle ==
    /\ targetDir = NoDir
    /\ step = 0
    /\ mpc = "idle"

NoFile == [exists |-> FALSE, text |-> <<>>]

File(t) == [exists |-> TRUE, text |-> t]

(***************************************************************************)
(* The built-in parameter map.  Values are kept as their JSON text.        *)
(***************************************************************************)
DefaultKeys ==
    {"temperature", "top_k", "top_p", "max_tokens",
     "presence_penalty", "frequency_penalty"}

DEFAULT_LLM_PARAMS ==
    [k \in DefaultKeys |->
        CASE k = "temperature"       -> "0.7"
          [] k = "top_k"             -> "40"
          [] k = "top_p"             -> "0.9"
          [] k = "max_tokens"        -> "1024"
          [] k = "presence_penalty"  -> "0.0"
          [] k = "frequency_penalty" -> "0.0"]

(***************************************************************************)
(* The text of llm_parameters.json: chunks [k, v].  k is the kind of the   *)
(* chunk; a chunk of kind "obj" is the text of the JSON object v, a chunk  *)
(* of kind "arr" the text of a JSON value that is not an object, a chunk   *)
(* of kind "keys" the text of a JSON array that lists the six default keys.*)
(***************************************************************************)
Chunk(kind) == [k |-> kind, v |-> NoObj]

FenceJson == Chunk("fence_json")
Fence     == Chunk("fence")
Space     == Chunk(" ")
Junk      == Chunk("#")
JsonArr   == Chunk("arr")
JsonKeys  == Chunk("keys")

JsonObj(o) == [k |-> "obj", v |-> o]

\* the JSON objects an operator writes: a default key, a key the defaults
\* do not have, both or none
Objects == UNION {[K -> {"0.2"}] : K \in SUBSET {"temperature", "seed"}}

ParamChunks ==
    {FenceJson, Fence, Space, Junk, JsonArr, JsonKeys}
        \cup {JsonObj(o) : o \in Objects}

ParamTexts == SeqsUpTo(ParamChunks, MaxParamLen)

RECURSIVE LStripWs(_)
LStripWs(s) ==
    IF s # <<>> /\ Head(s) = Space THEN LStripWs(Tail(s)) ELSE s

RECURSIVE RStripWs(_)
RStripWs(s) ==
    IF s # <<>> /\ s[Len(s)] = Space
    THEN RStripWs(SubSeq(s, 1, Len(s) - 1))
    ELSE s

StripWs(s) == RStripWs(LStripWs(s))

\* a faulty pattern: the group is greedy and runs to the last three
\* backquotes of the text
ReSearchJsonGreedy(text) ==
    LET opens  == {i \in 1..Len(text) : text[i] = FenceJson}
        i      == Min(opens)
        closes == {j \in (i + 1)..Len(text) : text[j] \in {Fence, FenceJson}}
        last   == CHOOSE j \in closes : \A k \in closes : k <= j
    IN  IF opens = {} \/ closes = {}
        THEN [found |-> FALSE, group1 |-> <<>>]
        ELSE [found |-> TRUE,
              group1 |-> StripWs(SubSeq(text, i + 1, last - 1))]

\* line 221, re.search of a fenced json block with re.DOTALL: the leftmost
\* opening fence that three backquotes follow, up to the first three
\* backquotes after it (those of a closing fence or of another opening
\* fence); group(1) is what lies between, without the whitespace at its ends.
ReSearchJson(text) ==
    LET opens  == {i \in 1..Len(text) : text[i] = FenceJson}
        i      == Min(opens)
        closes == {j \in (i + 1)..Len(text) : text[j] \in {Fence, FenceJson}}
    IN  IF opens = {} \/ closes = {}
        THEN [found |-> FALSE, group1 |-> <<>>]
        ELSE [found |-> TRUE,
              group1 |-> StripWs(SubSeq(text, i + 1, Min(closes) - 1))]

\* json.loads: one JSON value, whitespace around it allowed
JsonLoads(s) ==
    LET t == StripWs(s)
    IN  IF Len(t) = 1 /\ t[1].k \in {"obj", "arr", "keys"}
        THEN [ok |-> TRUE, kind |-> t[1].k, v |-> t[1].v]
        ELSE [ok |-> FALSE, kind |-> "error", v |-> NoObj]

\* lines 221-229: the text handed to json.loads
JsonStr(text) ==
    LET json_match == ReSearchJson(text)
    IN  IF json_match.found THEN json_match.group1 ELSE text

\* what get_llm_parameters returns when the parsed value is the array of the
\* default keys: that array, which maps no key to a value
ListOfDefaultKeys == [k \in {"[array]"} |-> "default keys"]

\* a faulty merge: the defaults overwrite what the operator gave
MergeDefaultsWin(custom_params) ==
    [k \in DOMAIN custom_params \cup DefaultKeys |->
        IF k \in DefaultKeys THEN DEFAULT_LLM_PARAMS[k] ELSE custom_params[k]]

\* lines 232-234: every default key missing from custom_params is added
MergeDefaults(custom_params) ==
    [k \in DOMAIN custom_params \cup DefaultKeys |->
        IF k \in DOMAIN custom_params
        THEN custom_params[k]
        ELSE DEFAULT_LLM_PARAMS[k]]

\* a faulty handler: a failed parse leaves the parameter map empty
ParamsEmptyOnError(text) ==
    LET parsed == JsonLoads(JsonStr(text))
    IN  CASE parsed.kind = "obj"  -> MergeDefaults(parsed.v)
          [] parsed.kind = "keys" -> ListOfDefaultKeys
          [] OTHER                -> NoObj

\* lines 219-241 after a successful read.  A parsed value that is not an
\* object makes the merge loop raise TypeError (line 233 or 234), which the
\* handler catches like a parse error; unless it is an array (or a string)
\* in which "key not in custom_params" is false for each default key: the
\* loop then assigns nothing and line 236 returns the array as it is.
ParamsFromText(text) ==
    LET parsed == JsonLoads(JsonStr(text))
    IN  CASE parsed.kind = "obj"  -> MergeDefaults(parsed.v)
          [] parsed.kind = "keys" -> ListOfDefaultKeys
          [] OTHER                -> DEFAULT_LLM_PARAMS

(***************************************************************************)
(* The assignments a step makes into an object that exists already: the    *)
(* object assigned into, and the items it is given.                        *)
(***************************************************************************)
NoWrites == [object |-> "", items |-> NoObj]

\* a faulty merge: what the operator gave is assigned into the built-in map
MergeWritesIntoDefaults(parsed) ==
    IF parsed.kind = "obj"
    THEN [object |-> "DEFAULT_LLM_PARAMS", items |-> parsed.v]
    ELSE NoWrites

\* lines 232-234: DEFAULT_LLM_PARAMS is iterated; each assignment of line
\* 234 goes into custom_params, the object json.loads made on line 226 or
\* 229.  Nothing is assigned when the parsed value is the array of the keys,
\* and line 233 or 234 raises before any assignment for another value.
MergeWrites(parsed) ==
    IF parsed.kind = "obj"
    THEN [object |-> "custom_params",
          items |-> [k \in DefaultKeys \ DOMAIN parsed.v |->
                        DEFAULT_LLM_PARAMS[k]]]
    ELSE NoWrites

\* the module's tables after the assignments w: a table changes when it is
\* the object assigned into
Store(g, w) ==
    [n \in DOMAIN g |->
        IF n = w.object
        THEN [k \in DOMAIN g[n] \cup DOMAIN w.items |->
                 IF k \in DOMAIN w.items THEN w.items[k] ELSE g[n][k]]
        ELSE g[n]]

(***************************************************************************)
(* get_llm_parameters (lines 187-248).                                     *)
(***************************************************************************)
\* lines 198-200: no template, the defaults are returned before any copy
get_llm_parameters_NoTemplate ==
    /\ lpc = "entry"
    /\ ~tmplParams
    /\ lpc' = "returned"
    /\ llm_params' = DEFAULT_LLM_PARAMS
    /\ UNCHANGED <<llmContent, envVars, fsVars, promptVars, outerVars>>

\* line 203: shutil.copy2 puts the template's text (any text) into the
\* working directory, over a file of that name if there is one
get_llm_parameters_Copy(Texts) ==
    /\ lpc = "entry"
    /\ tmplParams
    /\ \E t \in Texts : paramsFile' = File(t)
    /\ fsLog' = fsLog \cup {"write llm_parameters.json"}
    /\ lpc' = "copied"
    /\ UNCHANGED <<llmContent, llm_params, promptFile, envVars, promptVars, outerVars>>

\* line 203 is outside the try: a copy that fails raises out of the function
get_llm_parameters_CopyFails ==
    /\ lpc = "entry"
    /\ tmplParams
    /\ lpc' = "raised"
    /\ UNCHANGED <<llmContent, llm_params, envVars, fsVars, promptVars, outerVars>>

\* line 212: the function waits in input() while the operator edits the
\* file, leaves it as it is, or removes it
OperatorEditsParams(Texts) ==
    /\ lpc = "copied"
    /\ \/ \E t \in Texts : paramsFile' = File(t)
       \/ paramsFile' = paramsFile
       \/ paramsFile' = NoFile
    /\ lpc' = "edited"
    /\ UNCHANGED <<llmContent, llm_params, promptFile, fsLog, envVars, promptVars, outerVars>>

\* lines 214-248: read, parse, merge; any exception gives the defaults; the
\* finally clause unlinks the file if it exists, ignoring a failure to
get_llm_parameters_Resolve ==
    /\ lpc = "edited"
    /\ \E readOk \in {b \in BOOLEAN : b => paramsFile.exists} :
        /\ llmContent' = [ok |-> readOk,
                          text |-> IF readOk THEN paramsFile.text ELSE <<>>]
        /\ llm_params' = IF readOk
                         THEN ParamsFromText(paramsFile.text)
                         ELSE DEFAULT_LLM_PARAMS
        /\ registries' = IF readOk
                         THEN Store(registries,
                                    MergeWrites(JsonLoads(JsonStr(paramsFile.text))))
                         ELSE registries
    /\ \/ /\ paramsFile.exists
          /\ paramsFile' = NoFile
          /\ fsLog' = fsLog \cup {"unlink llm_parameters.json"}
       \/ UNCHANGED <<paramsFile, fsLog>>
    /\ lpc' = "returned"
    /\ UNCHANGED <<tmplPrompt, tmplParams, chatbot_description, chatbot_name, baseCss>>
    /\ UNCHANGED <<promptFile, promptVars, outerVars>>

(***************************************************************************)
(* The text of system_prompt.md: chunks are strings.  The three markers    *)
(* and the description token are one chunk each.                           *)
(***************************************************************************)
SENTINEL      == "Delete everything above this line"
DEFAULT_HEAD  == "## Default Prompt"
TIPS_HEAD     == "## Tips"
DESC_TOKEN    == "{{chatbot_description}}"

PromptChunks == {" ", "text", SENTINEL, DEFAULT_HEAD, TIPS_HEAD, DESC_TOKEN}

PromptTexts == SeqsUpTo(PromptChunks, MaxPromptLen)

\* the descriptions of the model: a plain one and one that holds the token
Descriptions == {<<"molecular biology">>, <<"about ", DESC_TOKEN>>}

\* lines 39-42
DEFAULT_SYSTEM_PROMPT ==
    <<"You are a helpful assistant specialized in ",
      DESC_TOKEN,
      ". \nYou provide accurate, concise information [...] professional tone.">>

\* str.strip()
RECURSIVE LStrip(_)
LStrip(s) == IF s # <<>> /\ Head(s) = " " THEN LStrip(Tail(s)) ELSE s

RECURSIVE RStrip(_)
RStrip(s) ==
    IF s # <<>> /\ s[Len(s)] = " "
    THEN RStrip(SubSeq(s, 1, Len(s) - 1))
    ELSE s

Strip(s) == RStrip(LStrip(s))

\* sub in text
Contains(text, sub) == \E i \in 1..Len(text) : text[i] = sub

\* text.split(sep): the pieces of text between the occurrences of sep
RECURSIVE Split(_, _)
Split(text, sep) ==
    IF ~Contains(text, sep)
    THEN <<text>>
    ELSE LET i == Min({j \in 1..Len(text) : text[j] = sep})
         IN  <<SubSeq(text, 1, i - 1)>>
                 \o Split(SubSeq(text, i + 1, Len(text)), sep)

\* text.replace(old, new): every occurrence of the chunk old, left to right;
\* what is put in is not scanned again
RECURSIVE Replace(_, _, _)
Replace(text, old, new) ==
    IF text = <<>>
    THEN <<>>
    ELSE (IF Head(text) = old THEN new ELSE <<Head(text)>>)
             \o Replace(Tail(text), old, new)

\* a faulty fallback: the default prompt is returned with its token in it
DefaultPromptRaw(description) == DEFAULT_SYSTEM_PROMPT

\* lines 142, 170, 177
DefaultPromptFor(description) ==
    Replace(DEFAULT_SYSTEM_PROMPT, DESC_TOKEN, description)

\* a faulty extraction: the token is substituted in an edited prompt too
ExtractSubstitutesAlways(text, description) ==
    Replace(text, DESC_TOKEN, description)

\* lines 162-172, on the stripped text of the file.  Python's split(..)[1]
\* and [0] are the second and the first piece.
ExtractPrompt(text, description) ==
    IF Contains(text, SENTINEL)
    THEN IF Contains(text, DEFAULT_HEAD) /\ Contains(text, TIPS_HEAD)
         THEN LET default_section ==
                      Strip(Split(Split(text, DEFAULT_HEAD)[2], TIPS_HEAD)[1])
              IN  Replace(default_section, DESC_TOKEN, description)
         ELSE DefaultPromptFor(description)
    ELSE text

(***************************************************************************)
(* get_system_prompt (lines 126-184).                                      *)
(***************************************************************************)
\* lines 140-142
get_system_prompt_NoTemplate ==
    /\ ppc = "entry"
    /\ ~tmplPrompt
    /\ ppc' = "returned"
    /\ system_prompt' = DefaultPromptFor(chatbot_description)
    /\ UNCHANGED <<content, envVars, fsVars, llmVars, outerVars>>

\* line 145
get_system_prompt_Copy(Texts) ==
    /\ ppc = "entry"
    /\ tmplPrompt
    /\ \E t \in Texts : promptFile' = File(t)
    /\ fsLog' = fsLog \cup {"write system_prompt.md"}
    /\ ppc' = "copied"
    /\ UNCHANGED <<content, system_prompt, paramsFile, envVars, llmVars, outerVars>>

\* line 145 is outside the try: a copy that fails raises out of the function
get_system_prompt_CopyFails ==
    /\ ppc = "entry"
    /\ tmplPrompt
    /\ ppc' = "raised"
    /\ UNCHANGED <<content, system_prompt, envVars, fsVars, llmVars, outerVars>>

\* line 155: the function waits in input() while the operator edits the
\* file, leaves it as it is, or removes it
OperatorEditsPrompt(Texts) ==
    /\ ppc = "copied"
    /\ \/ \E t \in Texts : promptFile' = File(t)
       \/ promptFile' = promptFile
       \/ promptFile' = NoFile
    /\ ppc' = "edited"
    /\ UNCHANGED <<content, system_prompt, paramsFile, fsLog, envVars, llmVars, outerVars>>

\* lines 157-184: read and strip, extract; any exception gives the default
\* prompt; the finally clause unlinks the file if it exists, ignoring a
\* failure to
get_system_prompt_Resolve ==
    /\ ppc = "edited"
    /\ \E readOk \in {b \in BOOLEAN : b => promptFile.exists} :
        /\ content' = [ok |-> readOk,
                       text |-> IF readOk THEN Strip(promptFile.text) ELSE <<>>,
                       raw |-> IF readOk THEN promptFile.text ELSE <<>>]
        /\ system_prompt' =
               IF readOk
               THEN ExtractPrompt(Strip(promptFile.text), chatbot_description)
               ELSE DefaultPromptFor(chatbot_description)
    /\ \/ /\ promptFile.exists
          /\ promptFile' = NoFile
          /\ fsLog' = fsLog \cup {"unlink system_prompt.md"}
       \/ UNCHANGED <<promptFile, fsLog>>
    /\ ppc' = "returned"
    /\ UNCHANGED <<paramsFile, envVars, llmVars, outerVars>>

NoContent == [ok |-> FALSE, text |-> <<>>, raw |-> <<>>]

(***************************************************************************)
(* OllamaLLM.generate_response (src/templates/llm.py, lines 40-90).        *)
(* Python values are written as their text: None, "" and [] are falsy.     *)
(***************************************************************************)
\* lines 12 and 15
LLM_DEFAULT_SYSTEM_PROMPT == "You are a helpful assistant."

\* line 35: self.model_name, the name the constructor was given
MODEL_NAME == "llama3.2:1b"

\* g over f: the items of f, then those of g over them (lines 65-70)
Override(f, g) ==
    [k \in DOMAIN f \cup DOMAIN g |-> IF k \in DOMAIN g THEN g[k] ELSE f[k]]

\* the parameter maps a configuration may give the module: any keys, those
\* of the body's own fields among them
ParamMaps ==
    UNION {[K -> {"configured"}] : K \in SUBSET {"temperature", "stream", "context"}}

\* the keyword overrides of a call: any name that is not a parameter of
\* generate_response
KeywordMaps ==
    UNION {[K -> {"override"}] : K \in SUBSET {"temperature", "model", "system"}}

Calls ==
    [prompt : {"hi"},
     system_prompt : {"None", "", "Be brief."},
     context : {"None", "[]", "[turn]"},
     kwargs : KeywordMaps]

NoCall == [prompt |-> "", system_prompt |-> "None", context |-> "None",
           kwargs |-> NoObj]

\* a faulty order: the parameter maps are laid over the system prompt and
\* the context instead of under them
BuildPayloadParamsLast(params, c) ==
    LET fields == [k \in {"model", "prompt", "stream"} |->
                      CASE k = "model"  -> MODEL_NAME
                        [] k = "prompt" -> c.prompt
                        [] k = "stream" -> "False"]
        system == [k \in {"system"} |->
                      IF c.system_prompt \notin {"None", ""}
                      THEN c.system_prompt
                      ELSE LLM_DEFAULT_SYSTEM_PROMPT]
        context == IF c.context \notin {"None", "[]"}
                   THEN [k \in {"context"} |-> c.context]
                   ELSE NoObj
    IN  Override(Override(Override(Override(fields, system), context),
                          params), c.kwargs)

\* lines 57-79: the request body
BuildPayload(params, c) ==
    LET fields == [k \in {"model", "prompt", "stream"} |->
                      CASE k = "model"  -> MODEL_NAME
                        [] k = "prompt" -> c.prompt
                        [] k = "stream" -> "False"]
        system == [k \in {"system"} |->
                      IF c.system_prompt \notin {"None", ""}
                      THEN c.system_prompt
                      ELSE LLM_DEFAULT_SYSTEM_PROMPT]
        context == IF c.context \notin {"None", "[]"}
                   THEN [k \in {"context"} |-> c.context]
                   ELSE NoObj
    IN  Override(Override(Override(Override(fields, params), c.kwargs),
                          system), context)

\* what requests.post may come back with: no response at all (the
\* connection failed), or a status and a body that is no JSON, a JSON value
\* that is no object, or a JSON object
Bodies ==
    {[kind |-> "text", v |-> NoObj], [kind |-> "array", v |-> NoObj],
     [kind |-> "object", v |-> NoObj],
     [kind |-> "object", v |-> [k \in {"response"} |-> "Hello"]],
     [kind |-> "object", v |-> [k \in {"response", "done"} |-> "Hello"]]}

Statuses == {200, 201, 304, 404, 500}

\* the connection failed
NoResponse == [sent |-> FALSE, status |-> 0, body |-> [kind |-> "text", v |-> NoObj]]

Responses ==
    [sent : {TRUE}, status : Statuses, body : Bodies] \cup {NoResponse}

\* line 90: the exception is caught and its text returned
Caught(e) ==
    [raised |-> FALSE, value |-> <<"Error generating response: ", e>>]

\* lines 85-87
Returned(value) == [raised |-> FALSE, value |-> <<value>>]

\* a faulty handler: the try ends after raise_for_status and the body is
\* read outside it
ResultBodyOutsideTry(r) ==
    IF ~r.sent
    THEN Caught("ConnectionError")
    ELSE IF 400 <= r.status /\ r.status < 600
    THEN Caught("HTTPError")
    ELSE IF r.body.kind # "object"
    THEN [raised |-> TRUE, value |-> <<>>]
    ELSE IF "response" \in DOMAIN r.body.v
    THEN Returned(r.body.v["response"])
    ELSE Returned("")

\* lines 81-90: post, raise_for_status (which raises for a status from 400
\* to 599 and for no other), json(), get("response", ""); any exception
\* gives the error string
ResultOf(r) ==
    IF ~r.sent
    THEN Caught("ConnectionError")
    ELSE IF 400 <= r.status /\ r.status < 600
    THEN Caught("HTTPError")
    ELSE IF r.body.kind = "text"
    THEN Caught("JSONDecodeError")
    ELSE IF r.body.kind # "object"
    THEN Caught("AttributeError")
    ELSE IF "response" \in DOMAIN r.body.v
    THEN Returned(r.body.v["response"])
    ELSE Returned("")

\* generate_response is not running
ClientIdle ==
    /\ DEFAULT_PARAMS = NoObj
    /\ call = NoCall
    /\ payload = NoObj
    /\ reply = NoResponse
    /\ result = <<>>
    /\ cpc = "idle"

\* what update_config.py has when it is not running
NoArgs == [prompt |-> [given |-> FALSE, text |-> <<>>],
           prompt_file |-> "None", param |-> <<>>]

NoPromptFile == [exists |-> FALSE, readable |-> FALSE, text |-> <<>>]

UpdateIdle ==
    /\ args = NoArgs
    /\ prompt_file = NoPromptFile
    /\ upd_config = NoObj
    /\ param_updates = NoObj
    /\ upc = "idle"

\* lines 57-79
generate_response_Build ==
    /\ cpc = "entry"
    /\ DEFAULT_PARAMS # ListOfDefaultKeys
    /\ payload' = BuildPayload(DEFAULT_PARAMS, call)
    /\ cpc' = "posting"
    /\ UNCHANGED <<DEFAULT_PARAMS, call, reply, result>>
    /\ UNCHANGED <<envVars, fsVars, promptVars, llmVars, renderVars, mainVars, uiVars,
                   updateVars>>

\* line 65 is before the try: a configuration whose parameters are a JSON
\* array has no items(), and AttributeError leaves the method
generate_response_Raises ==
    /\ cpc = "entry"
    /\ DEFAULT_PARAMS = ListOfDefaultKeys
    /\ cpc' = "raised"
    /\ UNCHANGED <<DEFAULT_PARAMS, call, payload, reply, result>>
    /\ UNCHANGED <<envVars, fsVars, promptVars, llmVars, renderVars, mainVars, uiVars,
                   updateVars>>

\* lines 81-90
generate_response_Post ==
    /\ cpc = "posting"
    /\ \E r \in Responses :
        /\ reply' = r
        /\ result' = ResultOf(r).value
        /\ cpc' = IF ResultOf(r).raised THEN "raised" ELSE "returned"
    /\ UNCHANGED <<DEFAULT_PARAMS, call, payload>>
    /\ UNCHANGED <<envVars, fsVars, promptVars, llmVars, renderVars, mainVars, uiVars,
                   updateVars>>

(***************************************************************************)
(* The theme and font catalogs and the two selection loops (lines 54-123). *)
(***************************************************************************)
\* lines 54-60; ThemeOrder is the order of the keys of the OrderedDict
ThemeOrder == <<"sky", "forest", "lavender", "sunset", "ocean">>

THEME_COLORS ==
    [t \in {"sky", "forest", "lavender", "sunset", "ocean"} |->
        CASE t = "sky"      -> [primary |-> "#0EA5E9", bg |-> "#F0F9FF", text |-> "#0C4A6E"]
          [] t = "forest"   -> [primary |-> "#22C55E", bg |-> "#F0FDF4", text |-> "#14532D"]
          [] t = "lavender" -> [primary |-> "#8B5CF6", bg |-> "#F5F3FF", text |-> "#4C1D95"]
          [] t = "sunset"   -> [primary |-> "#F59E0B", bg |-> "#FFFBEB", text |-> "#78350F"]
          [] t = "ocean"    -> [primary |-> "#0891B2", bg |-> "#ECFEFF", text |-> "#155E75"]]

\* lines 62-68
FONT_STYLES ==
    <<[name |-> "Modern", font_family |-> "Inter, system-ui, sans-serif", style |-> "clean"],
      [name |-> "Classic", font_family |-> "Georgia, serif", style |-> "traditional"],
      [name |-> "Minimal", font_family |-> "Roboto, Arial, sans-serif", style |-> "minimal"],
      [name |-> "Technical", font_family |-> "JetBrains Mono, monospace", style |-> "code"],
      [name |-> "Friendly", font_family |-> "Quicksand, sans-serif", style |-> "rounded"]>>


\* lines 28-35
OLLAMA_MODELS ==
    <<"llama3.2:1b", "llama3:8b", "llama3:70b", "mistral:7b", "phi3:mini",
      "tinyllama:1.1b">>

\* the module's tables as the import of the module leaves them (lines 28-68)
Registries ==
    [OLLAMA_MODELS         |-> OLLAMA_MODELS,
     DEFAULT_SYSTEM_PROMPT |-> DEFAULT_SYSTEM_PROMPT,
     DEFAULT_LLM_PARAMS    |-> DEFAULT_LLM_PARAMS,
     THEME_COLORS          |-> THEME_COLORS,
     FONT_STYLES           |-> FONT_STYLES]

\* what the operator may type at a numbered menu, after strip()
Choices == {"", "0", "1", "2", "3", "4", "5", "6", "x"}

\* int(choice): the number, or ValueError for what is no number
IntOf(choice) ==
    CASE choice = "0" -> [ok |-> TRUE, n |-> 0]
      [] choice = "1" -> [ok |-> TRUE, n |-> 1]
      [] choice = "2" -> [ok |-> TRUE, n |-> 2]
      [] choice = "3" -> [ok |-> TRUE, n |-> 3]
      [] choice = "4" -> [ok |-> TRUE, n |-> 4]
      [] choice = "5" -> [ok |-> TRUE, n |-> 5]
      [] choice = "6" -> [ok |-> TRUE, n |-> 6]
      [] OTHER        -> [ok |-> FALSE, n |-> 0]

\* lines 87-98 and 113-123: the index a menu of size entries takes from an
\* answer, 0 when the loop asks again; an empty answer stands for "1"
ChoiceIndex(choice, size) ==
    LET parsed     == IntOf(IF choice = "" THEN "1" ELSE choice)
        choice_idx == parsed.n - 1
    IN  IF parsed.ok /\ 0 <= choice_idx /\ choice_idx < size
        THEN choice_idx + 1
        ELSE 0

\* lines 74-98, called at line 1150: one answer of the operator; the loop
\* goes round until the answer is the number of a theme
get_theme_choice(Answered) ==
    /\ mpc = "get_theme_choice"
    /\ \E choice \in Answered :
        LET i == ChoiceIndex(choice, Len(ThemeOrder))
        IN  IF i = 0
            THEN UNCHANGED <<theme_name, theme_colors, mpc>>
            ELSE /\ theme_name' = ThemeOrder[i]
                 /\ theme_colors' = THEME_COLORS[ThemeOrder[i]]
                 /\ mpc' = "get_font_choice"
    /\ UNCHANGED <<font_style, main_config, cssFile, llmConfigFile, gpc>>
    /\ UNCHANGED <<targetDir, step>>
    /\ UNCHANGED <<envVars, fsVars, promptVars, llmVars, renderVars, clientVars, updateVars>>

\* lines 100-123, called at line 1153
get_font_choice(Answered) ==
    /\ mpc = "get_font_choice"
    /\ \E choice \in Answered :
        LET i == ChoiceIndex(choice, Len(FONT_STYLES))
        IN  IF i = 0
            THEN UNCHANGED <<font_style, mpc>>
            ELSE /\ font_style' = FONT_STYLES[i]
                 /\ mpc' = "start"
    /\ UNCHANGED <<theme_name, theme_colors, main_config, cssFile, llmConfigFile, gpc>>
    /\ UNCHANGED <<targetDir, step>>
    /\ UNCHANGED <<envVars, fsVars, promptVars, llmVars, renderVars, clientVars, updateVars>>

(***************************************************************************)
(* generate_custom_css (lines 704-849).  A stylesheet is a sequence of     *)
(* chunks [k, v]: a line of the opening comment, the declaration of a      *)
(* custom property (k its name, v its value), a run of rules, a comment.   *)
(***************************************************************************)
CssChunk(kind, value) == [k |-> kind, v |-> value]

\* the rules a stylesheet of the working directory may hold: rules of its
\* own, a declaration of the primary colour, and the very rules that the
\* composer appends for the style rounded
BaseChunks ==
    {CssChunk("rules", ".chat-container"),
     CssChunk("--primary-color", "#000000"),
     CssChunk("rules", ".message 18px, button 24px, .chat-form input 24px")}

MaxBaseLen == 2      \* chunks in the base stylesheet

BaseTexts == SeqsUpTo(BaseChunks, MaxBaseLen)

\* lines 721-726: the text of the base stylesheet, or the stand-in comment
BaseCssOf(file) ==
    IF file.exists THEN file.text ELSE <<CssChunk("comment", "Default styles")>>

\* lines 729-784: what the f-string lays out before {base_css}
CssHeader(name, colors, font) ==
    <<CssChunk("Custom CSS for", name),
      CssChunk("Theme", IF "name" \in DOMAIN colors THEN colors.name ELSE "Custom"),
      CssChunk("Font", font.name),
      CssChunk("--primary-color", colors.primary),
      CssChunk("--background-color", colors.bg),
      CssChunk("--text-color", colors.text),
      CssChunk("--font-family", font.font_family),
      CssChunk("rules", "body, .header, .primary-button, .bot-message, .bot-info, .customization-tip"),
      CssChunk("comment", "Base styles")>>

\* line 783: the comment the f-string lays out after {base_css}
CssAdjustments(font) == <<CssChunk("Custom style adjustments", font.style)>>

\* a faulty chain: the branch of minimal appends the rules of traditional
StyleBlockCopied(style) ==
    IF style = "clean"
    THEN <<CssChunk("rules", ".message 4px, .input-container 4px")>>
    ELSE IF style \in {"traditional", "minimal"}
    THEN <<CssChunk("rules", ".message 0 border-bottom, h1 h2 h3 normal")>>
    ELSE IF style = "code"
    THEN <<CssChunk("rules", "pre code var(--font-family), .message 0 border-left, .user-message")>>
    ELSE IF style = "rounded"
    THEN <<CssChunk("rules", ".message 18px, button 24px, .chat-form input 24px")>>
    ELSE <<>>

\* a faulty chain: it ends in an else that appends the rules of clean
StyleBlockElseClean(style) ==
    IF style = "traditional"
    THEN <<CssChunk("rules", ".message 0 border-bottom, h1 h2 h3 normal")>>
    ELSE IF style = "minimal"
    THEN <<CssChunk("rules", "* transition, .message none, button 3px")>>
    ELSE IF style = "code"
    THEN <<CssChunk("rules", "pre code var(--font-family), .message 0 border-left, .user-message")>>
    ELSE IF style = "rounded"
    THEN <<CssChunk("rules", ".message 18px, button 24px, .chat-form input 24px")>>
    ELSE <<CssChunk("rules", ".message 4px, .input-container 4px")>>

\* lines 787-845: the if/elif chain on font_style['style']
StyleBlock(style) ==
    IF style = "clean"
    THEN <<CssChunk("rules", ".message 4px, .input-container 4px")>>
    ELSE IF style = "traditional"
    THEN <<CssChunk("rules", ".message 0 border-bottom, h1 h2 h3 normal")>>
    ELSE IF style = "minimal"
    THEN <<CssChunk("rules", "* transition, .message none, button 3px")>>
    ELSE IF style = "code"
    THEN <<CssChunk("rules", "pre code var(--font-family), .message 0 border-left, .user-message")>>
    ELSE IF style = "rounded"
    THEN <<CssChunk("rules", ".message 18px, button 24px, .chat-form input 24px")>>
    ELSE <<>>

\* lines 729-845: custom_css
CustomCss(name, colors, font, base_css) ==
    CssHeader(name, colors, font) \o base_css \o CssAdjustments(font)
        \o StyleBlock(font.style)

NoConfigFile ==
    [exists |-> FALSE, system_prompt |-> <<>>, parameters |-> NoObj,
     metadata |-> NoObj]

\* main has not chosen, built or written anything
UiIdle ==
    /\ theme_name = ""
    /\ theme_colors = NoObj
    /\ font_style = NoObj
    /\ main_config = NoObj
    /\ cssFile = NoFile
    /\ llmConfigFile = NoConfigFile
    /\ gpc = "idle"

\* the arguments a caller may give generate_custom_css: an entry of the
\* catalog, or a map of its own (with a name, lines 731)
ThemeArguments ==
    {THEME_COLORS[t] : t \in DOMAIN THEME_COLORS}
        \cup {[primary |-> "#112233", bg |-> "#FFFFFF", text |-> "#000000",
               name |-> "Mine"]}

\* the style tags no branch of the chain tests for
UnknownStyles == {"", "Rounded", "bold"}

FontArguments ==
    {FONT_STYLES[i] : i \in 1..Len(FONT_STYLES)}
        \cup {[name |-> "Own", font_family |-> "Arial", style |-> s] :
                 s \in UnknownStyles}

\* lines 715-849: the stylesheet is composed and written
generate_custom_css ==
    /\ gpc = "entry"
    /\ cssFile' = File(CustomCss(chatbot_name, theme_colors, font_style,
                                 BaseCssOf(baseCss)))
    /\ gpc' = "returned"
    /\ UNCHANGED <<theme_name, theme_colors, font_style, main_config, llmConfigFile>>
    /\ UNCHANGED <<envVars, fsVars, promptVars, llmVars, renderVars, mainVars, clientVars, updateVars>>

\* lines 716, 722, 848: the directory cannot be made, or the base
\* stylesheet cannot be read, or the file cannot be written
generate_custom_css_Raises ==
    /\ gpc = "entry"
    /\ gpc' = "raised"
    /\ UNCHANGED <<theme_name, theme_colors, font_style, main_config,
                   cssFile, llmConfigFile>>
    /\ UNCHANGED <<envVars, fsVars, promptVars, llmVars, renderVars, mainVars, clientVars, updateVars>>

\* generate_custom_css on its own, over the arguments above
InitCss ==
    /\ tmplPrompt = TRUE
    /\ tmplParams = TRUE
    /\ chatbot_description = <<"molecular biology">>
    /\ chatbot_name \in {"BioBot", "bot-1"}
    /\ registries = Registries
    /\ baseCss \in {NoFile} \cup {File(t) : t \in BaseTexts}
    /\ promptFile = NoFile
    /\ paramsFile = NoFile
    /\ fsLog = {}
    /\ ppc = "idle"
    /\ content = NoContent
    /\ system_prompt = <<>>
    /\ lpc = "idle"
    /\ llmContent = [ok |-> FALSE, text |-> <<>>]
    /\ llm_params = NoObj
    /\ RenderIdle
    /\ MainIdle
    /\ theme_name = ""
    /\ theme_colors \in ThemeArguments
    /\ font_style \in FontArguments
    /\ main_config = NoObj
    /\ cssFile = NoFile
    /\ llmConfigFile = NoConfigFile
    /\ gpc = "entry"
    /\ ClientIdle
    /\ UpdateIdle

NextCss ==
    \/ generate_custom_css
    \/ generate_custom_css_Raises

SpecCss == InitCss /\ [][NextCss]_vars

(***************************************************************************)
(* get_system_prompt on its own, over every edited text up to the bound.   *)
(***************************************************************************)
InitPrompt ==
    /\ tmplPrompt \in BOOLEAN
    /\ tmplParams = TRUE
    /\ chatbot_description \in Descriptions
    /\ chatbot_name = "BioBot"
    /\ registries = Registries
    /\ baseCss = NoFile
    /\ promptFile \in {NoFile, File(<<"text">>)}
    /\ paramsFile = NoFile
    /\ fsLog = {}
    /\ ppc = "entry"
    /\ content = NoContent
    /\ system_prompt = <<>>
    /\ lpc = "idle"
    /\ llmContent = [ok |-> FALSE, text |-> <<>>]
    /\ llm_params = NoObj
    /\ RenderIdle
    /\ MainIdle
    /\ UiIdle
    /\ ClientIdle
    /\ UpdateIdle

NextPrompt ==
    \/ get_system_prompt_NoTemplate
    \/ get_system_prompt_Copy({<<"text">>})
    \/ get_system_prompt_CopyFails
    \/ OperatorEditsPrompt(PromptTexts)
    \/ get_system_prompt_Resolve

SpecPrompt == InitPrompt /\ [][NextPrompt]_vars

(***************************************************************************)
(* get_llm_parameters on its own, over every edited text up to the bound.  *)
(***************************************************************************)
InitParams ==
    /\ tmplPrompt = TRUE
    /\ tmplParams \in BOOLEAN
    /\ chatbot_description = <<"biology">>
    /\ chatbot_name = "BioBot"
    /\ registries = Registries
    /\ baseCss = NoFile
    /\ promptFile = NoFile
    /\ paramsFile \in {NoFile, File(<<Junk>>)}
    /\ fsLog = {}
    /\ ppc = "idle"
    /\ content = NoContent
    /\ system_prompt = <<>>
    /\ lpc = "entry"
    /\ llmContent = [ok |-> FALSE, text |-> <<>>]
    /\ llm_params = NoObj
    /\ RenderIdle
    /\ MainIdle
    /\ UiIdle
    /\ ClientIdle
    /\ UpdateIdle

NextParams ==
    \/ get_llm_parameters_NoTemplate
    \/ get_llm_parameters_Copy({<<Junk>>})
    \/ get_llm_parameters_CopyFails
    \/ OperatorEditsParams(ParamTexts)
    \/ get_llm_parameters_Resolve

SpecParams == InitParams /\ [][NextParams]_vars

(***************************************************************************)
(* copy_and_update_template_files (lines 282-306).  A template text is a   *)
(* sequence of chunks: the opening braces of a placeholder with the blank  *)
(* after them, the closing braces with the blank before them, and words.   *)
(* A configuration value is such a text too.                               *)
(***************************************************************************)
OPEN  == "{{{ "
CLOSE == " }}}"

\* the keys of the model's configuration map, in the order of lines 1176-1177
ConfigKeys == <<"chatbot_name", "chatbot_description">>

TemplateChunks == {OPEN, CLOSE, "chatbot_name", "chatbot_description"}

\* line 302: f"{{{{{{ {key} }}}}}}"
Placeholder(key) == <<OPEN, key, CLOSE>>

\* the values of the model: a plain word, a value that holds the placeholder
\* of the first or of the second key, and a value that ends like a placeholder
ConfigValues ==
    {<<"BioBot">>, Placeholder(ConfigKeys[1]), Placeholder(ConfigKeys[2]),
     <<ConfigKeys[1], CLOSE>>}

Configs ==
    {<<[key |-> ConfigKeys[1], value |-> v1],
       [key |-> ConfigKeys[2], value |-> v2]>> : v1, v2 \in ConfigValues}

TemplatePaths == {"README.md", "src/app.py"}

\* the source trees over TemplatePaths whose texts have at most n chunks in all
Trees(n) ==
    LET one(p) == {[q \in {p} |-> c] : c \in SeqsUpTo(TemplateChunks, n)}
        two == UNION {
                   {[q \in TemplatePaths |->
                        IF q = "README.md" THEN c1 ELSE c2] :
                        c2 \in SeqsUpTo(TemplateChunks, n - Len(c1))} :
                   c1 \in SeqsUpTo(TemplateChunks, n)}
    IN  {NoObj} \cup one("README.md") \cup one("src/app.py") \cup two

\* old occurs in text at position i
OccursAt(text, old, i) ==
    /\ i + Len(old) - 1 <= Len(text)
    /\ SubSeq(text, i, i + Len(old) - 1) = old

Occurs(text, old) == \E i \in 1..Len(text) : OccursAt(text, old, i)

\* str.replace(old, new) for a non-empty old: the occurrences of old from
\* left to right, none overlapping the one before; what is put in is not
\* scanned again by this call
RECURSIVE StrReplace(_, _, _)
StrReplace(text, old, new) ==
    IF text = <<>>
    THEN <<>>
    ELSE IF OccursAt(text, old, 1)
         THEN new \o StrReplace(SubSeq(text, Len(old) + 1, Len(text)), old, new)
         ELSE <<Head(text)>> \o StrReplace(Tail(text), old, new)

\* a faulty loop: only the first item of the map is substituted
RECURSIVE RenderFirstKeyOnly(_, _)
RenderFirstKeyOnly(text, cfg) ==
    IF cfg = <<>>
    THEN text
    ELSE StrReplace(text, Placeholder(cfg[1].key), cfg[1].value)

\* lines 300-303: one str.replace per item of the map, in the map's order,
\* each on the result of the one before
RECURSIVE Render(_, _)
Render(text, cfg) ==
    IF cfg = <<>>
    THEN text
    ELSE Render(StrReplace(text, Placeholder(cfg[1].key), cfg[1].value),
                Tail(cfg))

\* the line endings a file may hold, one chunk each
LF   == "<LF>"
CRLF == "<CR><LF>"

\* os.linesep where the generator runs (POSIX)
LineSep == LF

\* lines 297-298: the file is opened in text mode with no newline argument,
\* so f.read() gives a line feed for every line ending of the file
RECURSIVE ReadText(_)
ReadText(bytes) ==
    IF bytes = <<>>
    THEN <<>>
    ELSE <<IF Head(bytes) = CRLF THEN LF ELSE Head(bytes)>>
             \o ReadText(Tail(bytes))

\* lines 305-306: f.write() in text mode puts os.linesep for every line feed
RECURSIVE WriteText(_)
WriteText(text) ==
    IF text = <<>>
    THEN <<>>
    ELSE <<IF Head(text) = LF THEN LineSep ELSE Head(text)>>
             \o WriteText(Tail(text))

\* lines 287-306 for one file of the walk: read, substitute, write
RenderFile ==
    /\ wpc = "walking"
    /\ \E p \in pending :
        /\ tgtTree' = [q \in DOMAIN tgtTree \cup {p} |->
                          IF q = p
                          THEN WriteText(Render(ReadText(srcTree[p]), config))
                          ELSE tgtTree[q]]
        /\ pending' = pending \ {p}
    /\ UNCHANGED <<srcTree, config, failed, wpc>>
    /\ UNCHANGED <<envVars, fsVars, promptVars, llmVars, mainVars, uiVars, clientVars, updateVars>>

\* line 297 is in no try: a file that cannot be read (it vanished after the
\* enumeration, or is not text) raises out of the function
RenderFileRaises ==
    /\ wpc = "walking"
    /\ \E p \in pending :
        /\ failed' = {p}
        /\ pending' = pending \ {p}
    /\ wpc' = "raised"
    /\ UNCHANGED <<srcTree, config, tgtTree>>
    /\ UNCHANGED <<envVars, fsVars, promptVars, llmVars, mainVars, uiVars, clientVars, updateVars>>

\* line 287: the enumeration is exhausted, the function returns
RenderReturns ==
    /\ wpc = "walking"
    /\ pending = {}
    /\ wpc' = "done"
    /\ UNCHANGED <<srcTree, config, tgtTree, pending, failed>>
    /\ UNCHANGED <<envVars, fsVars, promptVars, llmVars, mainVars, uiVars, clientVars, updateVars>>

InitRender ==
    /\ tmplPrompt = TRUE
    /\ tmplParams = TRUE
    /\ chatbot_description = <<"molecular biology">>
    /\ chatbot_name = "BioBot"
    /\ registries = Registries
    /\ baseCss = NoFile
    /\ promptFile = NoFile
    /\ paramsFile = NoFile
    /\ fsLog = {}
    /\ ppc = "idle"
    /\ content = NoContent
    /\ system_prompt = <<>>
    /\ lpc = "idle"
    /\ llmContent = [ok |-> FALSE, text |-> <<>>]
    /\ llm_params = NoObj
    /\ srcTree \in Trees(MaxTreeSize)
    /\ config \in Configs
    /\ tgtTree = NoObj
    /\ pending = DOMAIN srcTree
    /\ failed = {}
    /\ wpc = "walking"
    /\ MainIdle
    /\ UiIdle
    /\ ClientIdle
    /\ UpdateIdle

NextRender ==
    \/ RenderFile
    \/ RenderFileRaises
    \/ RenderReturns

SpecRender == InitRender /\ [][NextRender]_vars

(***************************************************************************)
(* copy_and_update_template_files on one file of several lines: words,     *)
(* line endings, and the pieces of the placeholder of the first key.       *)
(***************************************************************************)
MaxCopyLen == 3      \* chunks in the file

CopyChunks == {"word", LF, CRLF, OPEN, ConfigKeys[1], CLOSE}

CopyTrees == {[q \in {"README.md"} |-> c] : c \in SeqsUpTo(CopyChunks, MaxCopyLen)}

InitCopy ==
    /\ tmplPrompt = TRUE
    /\ tmplParams = TRUE
    /\ chatbot_description = <<"molecular biology">>
    /\ chatbot_name = "BioBot"
    /\ registries = Registries
    /\ baseCss = NoFile
    /\ promptFile = NoFile
    /\ paramsFile = NoFile
    /\ fsLog = {}
    /\ ppc = "idle"
    /\ content = NoContent
    /\ system_prompt = <<>>
    /\ lpc = "idle"
    /\ llmContent = [ok |-> FALSE, text |-> <<>>]
    /\ llm_params = NoObj
    /\ srcTree \in CopyTrees
    /\ config \in Configs
    /\ tgtTree = NoObj
    /\ pending = DOMAIN srcTree
    /\ failed = {}
    /\ wpc = "walking"
    /\ MainIdle
    /\ UiIdle
    /\ ClientIdle
    /\ UpdateIdle

SpecCopy == InitCopy /\ [][NextRender]_vars

(***************************************************************************)
(* create_directory_structure (lines 250-280) and main (lines 1100-1240).  *)
(***************************************************************************)
\* lines 264-275, "" being the target directory itself
SkeletonDirs ==
    {"", "src", "src/static/css", "src/static/js", "src/templates",
     "src/models", "src/knowledge_base", "src/utils", "knowledge/documents",
     "docs"}

\* what the operator may type at a yes/no question
Answers == {"", "y", "Y", "n", "N", "yes"}

\* str.lower() on those
Lower(a) == CASE a = "Y" -> "y" [] a = "N" -> "n" [] OTHER -> a

\* lines 1209-1230: the steps of the try block after the skeleton, in order
GenerationSteps ==
    <<"copy_source_files", "generate_custom_css", "generate_llm_config",
      "generate_dockerfile", "generate_docker_compose",
      "generate_requirements", "generate_readme",
      "generate_deployment_guide", "generate_chatbot_guide",
      "generate_gitignore", "setup_knowledge_base">>

\* lines 855-870: the files copy_source_files copies when they are there
SourceFiles ==
    <<"src/app.py", "src/models/llm.py", "src/knowledge_base/loader.py",
      "src/knowledge_base/processor.py", "src/utils/helpers.py",
      "src/static/js/main.js", "src/templates/index.html",
      "src/templates/chat.html", "update_config.py">>

\* the files a generation step writes, in the order it writes them
FilesOf(s) ==
    CASE s = "generate_custom_css"       -> <<"src/static/css/style.css">>
      [] s = "generate_llm_config"       -> <<"src/config/llm_config.json",
                                               "src/config/README.md",
                                               "src/config/__init__.py">>
      [] s = "generate_dockerfile"       -> <<"Dockerfile">>
      [] s = "generate_docker_compose"   -> <<"docker-compose.yml">>
      [] s = "generate_requirements"     -> <<"requirements.txt">>
      [] s = "generate_readme"           -> <<"README.md">>
      [] s = "generate_deployment_guide" -> <<"docs/DEPLOYMENT.md">>
      [] s = "generate_chatbot_guide"    -> <<"docs/GITHUB_SETUP.md">>
      [] s = "generate_gitignore"        -> <<".gitignore">>
      [] s = "setup_knowledge_base"      -> <<"knowledge/documents/sample.md">>
      [] OTHER                           -> SourceFiles

Range(f) == {f[i] : i \in DOMAIN f}

\* a faulty map: the text colour is taken from the background entry
ResolvedConfigTextFromBg(name, description, tname, colors, font) ==
    [k \in {"chatbot_name", "chatbot_description", "theme_name",
            "primary_color", "background_color", "text_color",
            "font_family", "font_style", "font_name"} |->
        CASE k = "chatbot_name"     -> name
          [] k = "chatbot_description" -> description
          [] k = "theme_name"       -> tname
          [] k = "primary_color"    -> colors.primary
          [] k = "background_color" -> colors.bg
          [] k = "text_color"       -> colors.bg
          [] k = "font_family"      -> font.font_family
          [] k = "font_style"       -> font.style
          [] k = "font_name"        -> font.name]

\* lines 1175-1189: the config map, but for its entries model_name,
\* github_username, repository_name and date_created, whose inputs are no
\* state of this model
ResolvedConfig(name, description, tname, colors, font) ==
    [k \in {"chatbot_name", "chatbot_description", "theme_name",
            "primary_color", "background_color", "text_color",
            "font_family", "font_style", "font_name"} |->
        CASE k = "chatbot_name"     -> name
          [] k = "chatbot_description" -> description
          [] k = "theme_name"       -> tname
          [] k = "primary_color"    -> colors.primary
          [] k = "background_color" -> colors.bg
          [] k = "text_color"       -> colors.text
          [] k = "font_family"      -> font.font_family
          [] k = "font_style"       -> font.style
          [] k = "font_name"        -> font.name]

\* lines 917-928: what json.dump writes to llm_config.json
LlmConfig(prompt, params) ==
    [exists |-> TRUE,
     system_prompt |-> prompt,
     parameters |-> params,
     metadata |->
         [created_at |-> "datetime.now().isoformat()",
          description |-> "Configuration for chatbot LLM behavior and response generation",
          version |-> "1.0"]]

\* line 1169: main calls get_system_prompt, outside its try block
main_CallGetSystemPrompt ==
    /\ mpc = "start"
    /\ mpc' = "get_system_prompt"
    /\ ppc' = "entry"
    /\ UNCHANGED <<content, system_prompt, targetDir, step>>
    /\ UNCHANGED <<envVars, fsVars, llmVars, renderVars, uiVars, clientVars, updateVars>>

\* line 1172: get_system_prompt has returned, main calls get_llm_parameters
main_CallGetLlmParameters ==
    /\ mpc = "get_system_prompt"
    /\ ppc = "returned"
    /\ mpc' = "get_llm_parameters"
    /\ lpc' = "entry"
    /\ UNCHANGED <<llmContent, llm_params, targetDir, step>>
    /\ UNCHANGED <<envVars, fsVars, promptVars, renderVars, uiVars, clientVars, updateVars>>

\* lines 1169 and 1172 are before the try of line 1207: an exception out of
\* either function ends the run with a traceback
main_Crashes ==
    /\ \/ mpc = "get_system_prompt" /\ ppc = "raised"
       \/ mpc = "get_llm_parameters" /\ lpc = "raised"
    /\ mpc' = "crashed"
    /\ UNCHANGED <<targetDir, step>>
    /\ UNCHANGED <<envVars, fsVars, promptVars, llmVars, renderVars, uiVars, clientVars, updateVars>>

\* lines 1175-1206: the configuration map is built and the operator is asked
\* whether to generate; only an answer n (in either case) cancels
main_Proceed ==
    /\ mpc = "get_llm_parameters"
    /\ lpc = "returned"
    /\ main_config' = ResolvedConfig(chatbot_name, chatbot_description,
                                     theme_name, theme_colors, font_style)
    /\ \E answer \in Answers :
           mpc' = IF Lower(answer) # "n"
                  THEN "create_directory_structure"
                  ELSE "cancelled"
    /\ UNCHANGED <<targetDir, step>>
    /\ UNCHANGED <<theme_name, theme_colors, font_style, cssFile, llmConfigFile, gpc>>
    /\ UNCHANGED <<envVars, fsVars, promptVars, llmVars, renderVars, clientVars, updateVars>>

\* lines 255-260: the directory exists and the operator does not answer y;
\* sys.exit(0) raises SystemExit, which except Exception does not catch
create_directory_structure_Declined ==
    /\ mpc = "create_directory_structure"
    /\ targetDir.exists
    /\ \E response \in Answers : Lower(response) # "y"
    /\ mpc' = "exited"
    /\ UNCHANGED <<targetDir, step>>
    /\ UNCHANGED <<envVars, fsVars, promptVars, llmVars, renderVars, uiVars, clientVars, updateVars>>

\* a faulty removal: the directory and what it holds stay
RmtreeKeepsEntries(dir) == dir

\* line 261: shutil.rmtree removes the directory with all that it holds
Rmtree(dir) == NoDir

\* lines 277-278: mkdir(parents=True, exist_ok=True) for each directory of
\* the skeleton; what the target holds already stays
MakeSkeleton(dir) == [exists |-> TRUE, entries |-> dir.entries \cup SkeletonDirs]

\* lines 255-280: the directory does not exist, or the operator answers y
\* and the old tree is removed; then the skeleton is made
create_directory_structure_Creates ==
    /\ mpc = "create_directory_structure"
    /\ targetDir.exists => \E response \in Answers : Lower(response) = "y"
    /\ targetDir' = MakeSkeleton(IF targetDir.exists
                                 THEN Rmtree(targetDir)
                                 ELSE targetDir)
    /\ fsLog' = fsLog
                 \cup (IF targetDir.exists THEN {"rmtree target"} ELSE {})
                 \cup {"mkdir target"}
    /\ step' = 1
    /\ mpc' = "generate"
    /\ UNCHANGED <<promptFile, paramsFile>>
    /\ UNCHANGED <<envVars, promptVars, llmVars, renderVars, uiVars, clientVars, updateVars>>

\* lines 1212-1230: one generation step writes its files; copy_source_files
\* copies those of its sources that exist (none, some or all of them)
main_GenerationStep ==
    /\ mpc = "generate"
    /\ step \in 1..Len(GenerationSteps)
    /\ \E written \in (IF GenerationSteps[step] = "copy_source_files"
                       THEN {{}, {"src/app.py", "update_config.py"},
                             Range(SourceFiles)}
                       ELSE {Range(FilesOf(GenerationSteps[step]))}) :
        /\ targetDir' = [targetDir EXCEPT !.entries = @ \cup written]
        /\ fsLog' = fsLog \cup {"write target"}
    /\ cssFile' = IF GenerationSteps[step] = "generate_custom_css"
                  THEN File(CustomCss(chatbot_name, theme_colors, font_style,
                                      BaseCssOf(baseCss)))
                  ELSE cssFile
    /\ llmConfigFile' = IF GenerationSteps[step] = "generate_llm_config"
                        THEN LlmConfig(system_prompt, llm_params)
                        ELSE llmConfigFile
    /\ step' = step + 1
    /\ mpc' = IF step = Len(GenerationSteps) THEN "done" ELSE "generate"
    /\ UNCHANGED <<promptFile, paramsFile>>
    /\ UNCHANGED <<theme_name, theme_colors, font_style, main_config, gpc>>
    /\ UNCHANGED <<envVars, promptVars, llmVars, renderVars, clientVars, updateVars>>

\* lines 1238-1240: an exception in the try block (a file that cannot be
\* written, a tree that cannot be removed) is logged and reported; the
\* files written before it stay
main_GenerationFails ==
    /\ \/ /\ mpc = "create_directory_structure"
          /\ UNCHANGED <<targetDir, fsLog, llmConfigFile>>
       \/ /\ mpc = "generate"
          /\ step \in 1..Len(GenerationSteps)
          /\ \E n \in 0..(Len(FilesOf(GenerationSteps[step])) - 1) :
                 /\ targetDir' = [targetDir EXCEPT !.entries =
                        @ \cup Range(SubSeq(FilesOf(GenerationSteps[step]), 1, n))]
                 /\ llmConfigFile' =
                        IF GenerationSteps[step] = "generate_llm_config" /\ n >= 1
                        THEN LlmConfig(system_prompt, llm_params)
                        ELSE llmConfigFile
          /\ fsLog' = fsLog \cup {"write target"}
    /\ mpc' = "failed"
    /\ UNCHANGED <<promptFile, paramsFile, step>>
    /\ UNCHANGED <<theme_name, theme_colors, font_style, main_config, cssFile, gpc>>
    /\ UNCHANGED <<envVars, promptVars, llmVars, renderVars, clientVars, updateVars>>

\* the edited texts of the runs of main: a prompt of the operator's own, the
\* boilerplate left as it is, the boilerplate without its headings
MainPromptTexts ==
    {<<"text", DESC_TOKEN>>,
     <<SENTINEL, DEFAULT_HEAD, "text", TIPS_HEAD>>,
     <<SENTINEL>>}

\* a fenced object, a bare object, text that is no JSON, the JSON array of
\* the six default keys
MainParamTexts ==
    {<<Junk, FenceJson, JsonObj([k \in {"temperature"} |-> "0.2"]), Fence>>,
     <<JsonObj([k \in {"seed"} |-> "0.2"])>>,
     <<Junk>>,
     <<JsonKeys>>}

\* what a target directory left by an earlier run holds: itself and a file
PreviousEntries == {"", "notes.txt"}

(***************************************************************************)
(* A run of main.                                                          *)
(***************************************************************************)
Init ==
    /\ tmplPrompt \in BOOLEAN
    /\ tmplParams \in BOOLEAN
    /\ chatbot_description \in Descriptions
    /\ promptFile = NoFile
    /\ paramsFile \in {NoFile, File(<<Junk>>)}
    /\ fsLog = {}
    /\ ppc = "idle"
    /\ content = NoContent
    /\ system_prompt = <<>>
    /\ lpc = "idle"
    /\ llmContent = [ok |-> FALSE, text |-> <<>>]
    /\ llm_params = NoObj
    /\ RenderIdle
    /\ targetDir \in {NoDir, [exists |-> TRUE, entries |-> PreviousEntries]}
    /\ step = 0
    /\ mpc = "get_theme_choice"
    /\ chatbot_name = "BioBot"
    /\ registries = Registries
    /\ baseCss = File(<<CssChunk("rules", ".chat-container")>>)
    /\ UiIdle
    /\ ClientIdle
    /\ UpdateIdle

\* the answers at the two menus in the runs of main
MainThemeAnswers == {"", "2", "x"}

MainFontAnswers == {"4", "0"}

Next ==
    \/ get_theme_choice(MainThemeAnswers)
    \/ get_font_choice(MainFontAnswers)
    \/ main_CallGetSystemPrompt
    \/ get_system_prompt_NoTemplate
    \/ get_system_prompt_Copy({<<"text">>})
    \/ get_system_prompt_CopyFails
    \/ OperatorEditsPrompt(MainPromptTexts)
    \/ get_system_prompt_Resolve
    \/ main_CallGetLlmParameters
    \/ get_llm_parameters_NoTemplate
    \/ get_llm_parameters_Copy({<<Junk>>})
    \/ get_llm_parameters_CopyFails
    \/ OperatorEditsParams(MainParamTexts)
    \/ get_llm_parameters_Resolve
    \/ main_Crashes
    \/ main_Proceed
    \/ create_directory_structure_Declined
    \/ create_directory_structure_Creates
    \/ main_GenerationStep
    \/ main_GenerationFails

Spec == Init /\ [][Next]_vars

(***************************************************************************)
(* The runs of main over every answer at the two menus, with no hand-off   *)
(* template and no target directory in the way.                            *)
(***************************************************************************)
InitTheme ==
    /\ tmplPrompt = FALSE
    /\ tmplParams = FALSE
    /\ chatbot_description = <<"molecular biology">>
    /\ chatbot_name \in {"BioBot", "bot-1"}
    /\ registries = Registries
    /\ baseCss \in {NoFile, File(<<CssChunk("rules", ".chat-container")>>)}
    /\ promptFile = NoFile
    /\ paramsFile = NoFile
    /\ fsLog = {}
    /\ ppc = "idle"
    /\ content = NoContent
    /\ system_prompt = <<>>
    /\ lpc = "idle"
    /\ llmContent = [ok |-> FALSE, text |-> <<>>]
    /\ llm_params = NoObj
    /\ RenderIdle
    /\ targetDir = NoDir
    /\ step = 0
    /\ mpc = "get_theme_choice"
    /\ UiIdle
    /\ ClientIdle
    /\ UpdateIdle

NextTheme ==
    \/ get_theme_choice(Choices)
    \/ get_font_choice(Choices)
    \/ main_CallGetSystemPrompt
    \/ get_system_prompt_NoTemplate
    \/ main_CallGetLlmParameters
    \/ get_llm_parameters_NoTemplate
    \/ main_Proceed
    \/ create_directory_structure_Creates
    \/ main_GenerationStep
    \/ main_GenerationFails

SpecTheme == InitTheme /\ [][NextTheme]_vars

(***************************************************************************)
(* generate_response on its own, over the parameter maps, the calls and    *)
(* the responses above.                                                    *)
(***************************************************************************)
InitClient ==
    /\ tmplPrompt = TRUE
    /\ tmplParams = TRUE
    /\ chatbot_description = <<"molecular biology">>
    /\ chatbot_name = "BioBot"
    /\ registries = Registries
    /\ baseCss = NoFile
    /\ promptFile = NoFile
    /\ paramsFile = NoFile
    /\ fsLog = {}
    /\ ppc = "idle"
    /\ content = NoContent
    /\ system_prompt = <<>>
    /\ lpc = "idle"
    /\ llmContent = [ok |-> FALSE, text |-> <<>>]
    /\ llm_params = NoObj
    /\ RenderIdle
    /\ MainIdle
    /\ UiIdle
    /\ DEFAULT_PARAMS \in ParamMaps \cup {ListOfDefaultKeys}
    /\ call \in Calls
    /\ payload = NoObj
    /\ reply = NoResponse
    /\ result = <<>>
    /\ cpc = "entry"
    /\ UpdateIdle

NextClient ==
    \/ generate_response_Build
    \/ generate_response_Raises
    \/ generate_response_Post

SpecClient == InitClient /\ [][NextClient]_vars

(***************************************************************************)
(* templates/update_config.py: the script that updates llm_config.json of  *)
(* a generated chatbot.  The file is what generate_llm_config wrote, or is *)
(* missing, or holds text that is no JSON.                                 *)
(***************************************************************************)
MaxParams == 2       \* --param arguments on a command line

\* a config file whose text json.load cannot parse
InvalidJson == [exists |-> TRUE, text |-> <<Junk>>]

\* what a dump that fails part of the way leaves in the file
PartOfJson == [exists |-> TRUE, text |-> <<Chunk("{")>>]

IsJson(file) == file.exists /\ "parameters" \in DOMAIN file

\* the parameter maps generate_llm_config can have written: a merged map,
\* the defaults, the array of the default keys
WrittenParams ==
    {DEFAULT_LLM_PARAMS,
     MergeDefaults([k \in {"seed"} |-> "7"]),
     ListOfDefaultKeys}

ConfigFiles ==
    {NoConfigFile, InvalidJson}
        \cup {LlmConfig(<<"old prompt">>, ps) : ps \in WrittenParams}

\* json.load of a config file (line 30)
ConfigOf(file) ==
    [system_prompt |-> file.system_prompt,
     parameters |-> file.parameters,
     metadata |-> file.metadata]

\* json.dump of a config (line 49)
FileOf(cfgmap) ==
    [exists |-> TRUE,
     system_prompt |-> cfgmap.system_prompt,
     parameters |-> cfgmap.parameters,
     metadata |-> cfgmap.metadata]

\* a --param argument: the text before its first "=", whether it has one,
\* and the text after it
ParamArg(key, eq, value) == [key |-> key, eq |-> eq, value |-> value]

ParamArgs ==
    {ParamArg("temperature", TRUE, "0.8"), ParamArg("seed", TRUE, "2048"),
     ParamArg("stream", TRUE, "True"), ParamArg("temperature", TRUE, "fast"),
     ParamArg("top_k", FALSE, "")}

PromptArgs ==
    {[given |-> FALSE, text |-> <<>>], [given |-> TRUE, text |-> <<>>],
     [given |-> TRUE, text |-> <<"new prompt">>]}

\* the command lines argparse accepts: --prompt and --prompt-file exclude
\* each other (line 115)
CommandLines ==
    {a \in [prompt : PromptArgs, prompt_file : {"None", "new_prompt.txt"},
            param : SeqsUpTo(ParamArgs, MaxParams)] :
        ~(a.prompt.given /\ a.prompt_file # "None")}

PromptFiles ==
    {NoPromptFile,
     [exists |-> TRUE, readable |-> FALSE, text |-> <<>>],
     [exists |-> TRUE, readable |-> TRUE, text |-> <<" ", "new prompt", " ">>]}

\* lines 174-186: true and false in any case give a boolean, a value with a
\* dot a float, another value an integer, and a value that float() or int()
\* rejects stays a string; the result as json.dump writes it
LowerValue(value) == CASE value = "True" -> "true" [] OTHER -> value

HasDot(value) == value \in {"0.8"}

\* float(value) and int(value) do not raise ValueError
FloatAccepts(value) == value \in {"0.8", "2048"}

IntAccepts(value) == value \in {"2048"}

\* json.dump of a string
JsonString(value) == CASE value = "fast" -> "\"fast\"" [] OTHER -> value

TypedValue(value) ==
    IF LowerValue(value) = "true"
    THEN "true"
    ELSE IF LowerValue(value) = "false"
    THEN "false"
    ELSE IF HasDot(value)
    THEN (IF FloatAccepts(value) THEN value ELSE JsonString(value))
    ELSE (IF IntAccepts(value) THEN value ELSE JsonString(value))

\* a faulty loop: an argument without "=" is passed over
RECURSIVE ParseParamsSkipMalformed(_)
ParseParamsSkipMalformed(params) ==
    IF params = <<>>
    THEN [ok |-> TRUE, updates |-> NoObj]
    ELSE LET rest == ParseParamsSkipMalformed(SubSeq(params, 1, Len(params) - 1))
             last == params[Len(params)]
         IN  IF ~last.eq
             THEN rest
             ELSE [ok |-> rest.ok,
                   updates |->
                       Override(rest.updates,
                                [k \in {last.key} |-> TypedValue(last.value)])]

\* lines 165-188: the loop over args.param; an argument without "=" ends
\* the process (ok is FALSE), a later argument of the same key overwrites
\* an earlier one
RECURSIVE ParseParams(_)
ParseParams(params) ==
    IF params = <<>>
    THEN [ok |-> TRUE, updates |-> NoObj]
    ELSE LET rest == ParseParams(SubSeq(params, 1, Len(params) - 1))
             last == params[Len(params)]
         IN  IF ~rest.ok \/ ~last.eq
             THEN [ok |-> FALSE, updates |-> NoObj]
             ELSE [ok |-> TRUE,
                   updates |->
                       Override(rest.updates,
                                [k \in {last.key} |-> TypedValue(last.value)])]

\* lines 56-68
update_system_prompt(cfgmap, prompt) ==
    [cfgmap EXCEPT !.system_prompt = prompt]

\* line 83 raises TypeError at the first item when config['parameters'] is
\* a list
update_parameters_Raises(cfgmap, updates) ==
    updates # NoObj /\ cfgmap.parameters = ListOfDefaultKeys

\* lines 71-84
update_parameters(cfgmap, updates) ==
    [cfgmap EXCEPT !.parameters = Override(@, updates)]

\* lines 142, 14-36: the file is missing, cannot be read or is no JSON, and
\* the process exits with status 1; or the config is loaded
update_config_Load ==
    /\ upc = "load"
    /\ \/ /\ IsJson(llmConfigFile)
          /\ upd_config' = ConfigOf(llmConfigFile)
          /\ upc' = "prompt"
       \/ /\ \/ ~llmConfigFile.exists
             \/ ~IsJson(llmConfigFile)
             \/ llmConfigFile.exists
          /\ upc' = "exit(1)"
          /\ UNCHANGED upd_config
    /\ UNCHANGED <<args, prompt_file, param_updates>>
    /\ UNCHANGED <<envVars, fsVars, promptVars, llmVars, renderVars, mainVars,
                   uiVars, clientVars>>

\* lines 145-161: a prompt that is given and not empty is set; or the
\* prompt file is read and its stripped text is set, and a file that is
\* missing or cannot be read ends the process with status 1
update_config_Prompt ==
    /\ upc = "prompt"
    /\ IF args.prompt.given /\ args.prompt.text # <<>>
       THEN /\ upd_config' = update_system_prompt(upd_config, args.prompt.text)
            /\ upc' = "params"
       ELSE IF args.prompt_file # "None"
            THEN IF prompt_file.exists /\ prompt_file.readable
                 THEN /\ upd_config' =
                             update_system_prompt(upd_config, Strip(prompt_file.text))
                      /\ upc' = "params"
                 ELSE /\ upc' = "exit(1)"
                      /\ UNCHANGED upd_config
            ELSE /\ upc' = "params"
                 /\ UNCHANGED upd_config
    /\ UNCHANGED <<args, prompt_file, param_updates>>
    /\ UNCHANGED <<envVars, fsVars, promptVars, llmVars, renderVars, mainVars,
                   uiVars, clientVars>>

\* lines 164-191: the update map is built from every argument, then applied
update_config_Params ==
    /\ upc = "params"
    /\ LET parsed == ParseParams(args.param)
       IN  IF args.param = <<>>
           THEN /\ upc' = "save"
                /\ UNCHANGED <<upd_config, param_updates>>
           ELSE IF ~parsed.ok
           THEN /\ upc' = "exit(1)"
                /\ UNCHANGED <<upd_config, param_updates>>
           ELSE /\ param_updates' = parsed.updates
                /\ IF update_parameters_Raises(upd_config, parsed.updates)
                   THEN /\ upc' = "raised"
                        /\ UNCHANGED upd_config
                   ELSE /\ upd_config' = update_parameters(upd_config, parsed.updates)
                        /\ upc' = "save"
    /\ UNCHANGED <<args, prompt_file>>
    /\ UNCHANGED <<envVars, fsVars, promptVars, llmVars, renderVars, mainVars,
                   uiVars, clientVars>>

\* lines 194, 39-53: the file is opened for writing and the config dumped;
\* a failure to open leaves the file, a failure while writing leaves part
\* of the text, and either ends the process with status 1
update_config_Save ==
    /\ upc = "save"
    /\ \/ /\ llmConfigFile' = FileOf(upd_config)
          /\ fsLog' = fsLog \cup {"write llm_config.json"}
          /\ upc' = "done"
       \/ /\ llmConfigFile' = PartOfJson
          /\ fsLog' = fsLog \cup {"write llm_config.json"}
          /\ upc' = "exit(1)"
       \/ /\ UNCHANGED <<llmConfigFile, fsLog>>
          /\ upc' = "exit(1)"
    /\ UNCHANGED <<args, prompt_file, upd_config, param_updates>>
    /\ UNCHANGED <<theme_name, theme_colors, font_style, main_config, cssFile, gpc>>
    /\ UNCHANGED <<promptFile, paramsFile>>
    /\ UNCHANGED <<envVars, promptVars, llmVars, renderVars, mainVars, clientVars>>

InitUpdate ==
    /\ tmplPrompt = TRUE
    /\ tmplParams = TRUE
    /\ chatbot_description = <<"molecular biology">>
    /\ chatbot_name = "BioBot"
    /\ registries = Registries
    /\ baseCss = NoFile
    /\ promptFile = NoFile
    /\ paramsFile = NoFile
    /\ fsLog = {}
    /\ ppc = "idle"
    /\ content = NoContent
    /\ system_prompt = <<>>
    /\ lpc = "idle"
    /\ llmContent = [ok |-> FALSE, text |-> <<>>]
    /\ llm_params = NoObj
    /\ RenderIdle
    /\ MainIdle
    /\ theme_name = ""
    /\ theme_colors = NoObj
    /\ font_style = NoObj
    /\ main_config = NoObj
    /\ cssFile = NoFile
    /\ llmConfigFile \in ConfigFiles
    /\ gpc = "idle"
    /\ ClientIdle
    /\ args \in CommandLines
    /\ prompt_file \in (IF args.prompt_file = "None"
                        THEN {NoPromptFile}
                        ELSE PromptFiles)
    /\ upd_config = NoObj
    /\ param_updates = NoObj
    /\ upc = "load"

NextUpdate ==
    \/ update_config_Load
    \/ update_config_Prompt
    \/ update_config_Params
    \/ update_config_Save

SpecUpdate == InitUpdate /\ [][NextUpdate]_vars

(***************************************************************************)
(* Claims about get_llm_parameters.                                        *)
(***************************************************************************)
\* what json.loads made of the text that get_llm_parameters read
ParsedParams == JsonLoads(JsonStr(llmContent.text))

ParamsReturnedFromText == lpc = "returned" /\ llmContent.ok

\* C1: when the hand-off text parses to a JSON object P, the returned map
\* has exactly the keys of P and the six default keys, gives each key of P
\* the value P gives it, and gives each default key absent from P its
\* built-in default.
C1_MergeIsAdditive ==
    (ParamsReturnedFromText /\ ParsedParams.kind = "obj") =>
        LET P == ParsedParams.v
        IN  /\ DOMAIN llm_params = DOMAIN P \cup DefaultKeys
            /\ \A k \in DOMAIN P : llm_params[k] = P[k]
            /\ \A k \in DefaultKeys \ DOMAIN P :
                   llm_params[k] = DEFAULT_LLM_PARAMS[k]

\* a fenced object that overrides temperature and adds seed has been merged
C1_Witness ==
    /\ ParamsReturnedFromText
    /\ ReSearchJson(llmContent.text).found
    /\ ParsedParams.kind = "obj"
    /\ DOMAIN ParsedParams.v = {"temperature", "seed"}
    /\ llm_params["temperature"] = "0.2"
    /\ llm_params["seed"] = "0.2"
    /\ llm_params["top_k"] = "40"

\* C2: when the selected JSON text fails to parse, get_llm_parameters does
\* not raise and returns the six built-in defaults and nothing else.
C2_DefaultsOnParseError ==
    (lpc \in {"returned", "raised"} /\ llmContent.ok /\ ~ParsedParams.ok) =>
        /\ lpc = "returned"
        /\ DOMAIN llm_params = DefaultKeys
        /\ llm_params["temperature"] = "0.7"
        /\ llm_params["top_k"] = "40"
        /\ llm_params["top_p"] = "0.9"
        /\ llm_params["max_tokens"] = "1024"
        /\ llm_params["presence_penalty"] = "0.0"
        /\ llm_params["frequency_penalty"] = "0.0"

\* a fenced block whose interior is malformed, beside a well-formed object
\* outside the fence, has given the defaults
C2_Witness ==
    /\ ParamsReturnedFromText
    /\ ReSearchJson(llmContent.text).found
    /\ ~ParsedParams.ok
    /\ \E i \in 1..Len(llmContent.text) : llmContent.text[i].k = "obj"
    /\ llm_params = DEFAULT_LLM_PARAMS

(***************************************************************************)
(* Claims about get_system_prompt.                                         *)
(***************************************************************************)
PromptReturnedFromText == ppc = "returned" /\ content.ok

Spaces(n) == [i \in 1..n |-> " "]

BothHeads(text) == Contains(text, DEFAULT_HEAD) /\ Contains(text, TIPS_HEAD)

\* C4: an edited text without the sentinel is returned as it is but for the
\* whitespace at its two ends; a description token in it stays where it is.
C4_EditedPromptVerbatim ==
    (PromptReturnedFromText /\ ~Contains(content.raw, SENTINEL)) =>
        /\ \E i, j \in 0..Len(content.raw) :
               content.raw = Spaces(i) \o system_prompt \o Spaces(j)
        /\ system_prompt # <<>> =>
               /\ Head(system_prompt) # " "
               /\ system_prompt[Len(system_prompt)] # " "

\* an edited prompt with whitespace before it and a token in it was returned
C4_Witness ==
    /\ PromptReturnedFromText
    /\ ~Contains(content.raw, SENTINEL)
    /\ Len(content.raw) > 1
    /\ Head(content.raw) = " "
    /\ Contains(system_prompt, DESC_TOKEN)
    /\ chatbot_description = <<"molecular biology">>

\* C5 as the specification states it: with the sentinel and both heading
\* markers in the text, wherever they are, the result is the stripped text
\* between a "## Default Prompt" and a "## Tips" after it, with the token
\* replaced by the description.
C5_BetweenMarkersAnywhere ==
    (PromptReturnedFromText /\ Contains(content.raw, SENTINEL)
         /\ BothHeads(content.raw)) =>
        \E i, j \in 1..Len(content.raw) :
            /\ i < j
            /\ content.raw[i] = DEFAULT_HEAD
            /\ content.raw[j] = TIPS_HEAD
            /\ system_prompt =
                   Replace(Strip(SubSeq(content.raw, i + 1, j - 1)),
                           DESC_TOKEN, chatbot_description)

\* C6: whenever the prompt falls back to the built-in default (no template,
\* the file could not be read, or the sentinel is there but a heading marker
\* is not), the result is the default prompt with the description in place
\* of its token, and has a token only if the description has one.
C6_FallbackSubstituted ==
    (ppc = "returned" /\
        (~content.ok \/
            (Contains(content.raw, SENTINEL) /\ ~BothHeads(content.raw)))) =>
        /\ system_prompt =
               <<DEFAULT_SYSTEM_PROMPT[1]>> \o chatbot_description
                   \o <<DEFAULT_SYSTEM_PROMPT[3]>>
        /\ Contains(system_prompt, DESC_TOKEN) =>
               Contains(chatbot_description, DESC_TOKEN)

\* the boilerplate without its "## Tips" heading gave the default prompt
C6_Witness ==
    /\ PromptReturnedFromText
    /\ Contains(content.raw, SENTINEL)
    /\ Contains(content.raw, DEFAULT_HEAD)
    /\ ~Contains(content.raw, TIPS_HEAD)
    /\ chatbot_description = <<"molecular biology">>
    /\ system_prompt[2] = "molecular biology"
    /\ ~Contains(system_prompt, DESC_TOKEN)

(***************************************************************************)
(* Claims about copy_and_update_template_files.                            *)
(***************************************************************************)
\* the placeholder of some key of the map occurs in text
HasPlaceholder(text, cfg) ==
    \E i \in 1..Len(cfg) : Occurs(text, Placeholder(cfg[i].key))

\* no value of the map holds opening braces
ValuesHaveNoOpen(cfg) ==
    \A i \in 1..Len(cfg) : ~Contains(cfg[i].value, OPEN)

\* wherever text has opening braces, the placeholder of a key begins
OpensBeginPlaceholders(text, cfg) ==
    \A j \in 1..Len(text) :
        text[j] = OPEN =>
            \E i \in 1..Len(cfg) : OccursAt(text, Placeholder(cfg[i].key), j)

\* C7 as the specification states it: after the walk the target has the
\* relative paths of the source and no file of it holds the placeholder of
\* any key of the configuration map.
C7_NoPlaceholderRemains ==
    wpc = "done" =>
        /\ DOMAIN tgtTree = DOMAIN srcTree
        /\ \A p \in DOMAIN tgtTree : ~HasPlaceholder(tgtTree[p], config)

\* C7, amended: every file written has the relative path of a source file,
\* and after a walk that returns the target has exactly the paths of the
\* source; a written file holds no placeholder of any key of the map when
\* no value of the map holds opening braces and the opening braces in the
\* source file all begin placeholders of keys of the map.
C7_MirrorsAndSubstitutes ==
    /\ DOMAIN tgtTree \subseteq DOMAIN srcTree
    /\ wpc = "done" => DOMAIN tgtTree = DOMAIN srcTree
    /\ \A p \in DOMAIN tgtTree :
           (ValuesHaveNoOpen(config) /\ OpensBeginPlaceholders(srcTree[p], config))
               => ~HasPlaceholder(tgtTree[p], config)

\* a tree of two files was rendered, one of them with the placeholder of the
\* last key in it, by a map whose values hold no opening braces
C7_Witness ==
    /\ wpc = "done"
    /\ DOMAIN tgtTree = TemplatePaths
    /\ ValuesHaveNoOpen(config)
    /\ \E p \in DOMAIN srcTree :
           /\ OpensBeginPlaceholders(srcTree[p], config)
           /\ Occurs(srcTree[p], Placeholder(config[Len(config)].key))
           /\ tgtTree[p] # srcTree[p]

\* one pass over the template text: each placeholder found in the text, from
\* left to right, gives way to its value, and no value is looked into
RECURSIVE SinglePass(_, _)
SinglePass(text, cfg) ==
    IF text = <<>>
    THEN <<>>
    ELSE LET hit == {i \in 1..Len(cfg) :
                        OccursAt(text, Placeholder(cfg[i].key), 1)}
         IN  IF hit = {}
             THEN <<Head(text)>> \o SinglePass(Tail(text), cfg)
             ELSE cfg[Min(hit)].value
                      \o SinglePass(SubSeq(text, 4, Len(text)), cfg)

\* C8: the substitution is a single pass over the original template text; a
\* placeholder that a substituted value holds appears in the output as it
\* is and is never itself replaced.
C8_SinglePassOnly ==
    \A p \in DOMAIN tgtTree : tgtTree[p] = SinglePass(srcTree[p], config)

\* C9: a source file that cannot be read is skipped; the walk goes on and
\* every other file of the source tree is rendered into the target.
C9_UnreadableFileSkipped ==
    failed # {} =>
        /\ wpc # "raised"
        /\ pending = {} => DOMAIN tgtTree = DOMAIN srcTree \ failed

(***************************************************************************)
(* Claims about a run of main.                                             *)
(***************************************************************************)
\* C3: no configuration problem aborts the run.  When the hand-off file is
\* missing, cannot be copied or read, or holds malformed JSON, the function
\* returns the built-in default and main goes on.
C3_ConfigProblemsNeverAbort ==
    /\ (ppc \in {"returned", "raised"} /\ ~content.ok) =>
           /\ ppc = "returned"
           /\ system_prompt = DefaultPromptFor(chatbot_description)
    /\ (lpc \in {"returned", "raised"} /\ (~llmContent.ok \/ ~ParsedParams.ok)) =>
           /\ lpc = "returned"
           /\ llm_params = DEFAULT_LLM_PARAMS
    /\ mpc # "crashed"

\* C10: when the target directory exists and the overwrite is declined, the
\* run ends at once, no generation step has run, and the run has created,
\* modified or deleted nothing: the old tree is as it was.
C10_DeclineHasNoSideEffects ==
    mpc = "exited" =>
        /\ step = 0
        /\ fsLog = {}
        /\ targetDir = [exists |-> TRUE, entries |-> {"", "notes.txt"}]

\* C11: one confirmation gates every write and deletion and is evaluated
\* before any of them: the run changes nothing in the file system before
\* the overwrite confirmation of create_directory_structure has been
\* evaluated, and no other confirmation decides whether output is written.
C11_SingleGateBeforeAnyWrite ==
    /\ fsLog # {} => mpc \in {"generate", "done", "failed", "exited"}
    /\ mpc # "cancelled"

\* C12: a run that gets past the overwrite confirmation makes the skeleton
\* and then calls both copy_and_update_template_files and
\* generate_custom_css on the target, so that a run that completes leaves
\* the rendered template files and the composed stylesheet in the target.
C12_RendererAndComposerRun ==
    mpc = "done" =>
        /\ wpc = "done"
        /\ "src/static/css/style.css" \in targetDir.entries

\* C17: every failure of a run other than a declined overwrite confirmation
\* is caught, logged and reported; none leaves main as an exception.
C17_FailuresAreCaught ==
    /\ ppc = "raised" => mpc \in {"get_system_prompt", "failed"}
    /\ lpc = "raised" => mpc \in {"get_llm_parameters", "failed"}
    /\ mpc \in {"get_theme_choice", "get_font_choice",
                "start", "get_system_prompt", "get_llm_parameters",
                "create_directory_structure", "generate",
                "done", "failed", "cancelled", "exited"}

(***************************************************************************)
(* Claims about generate_custom_css.                                       *)
(***************************************************************************)
\* the rules that belong to each of the five style tags
TagRules ==
    [tag \in {"clean", "traditional", "minimal", "code", "rounded"} |->
        CASE tag = "clean"       -> ".message 4px, .input-container 4px"
          [] tag = "traditional" -> ".message 0 border-bottom, h1 h2 h3 normal"
          [] tag = "minimal"     -> "* transition, .message none, button 3px"
          [] tag = "code"        -> "pre code var(--font-family), .message 0 border-left, .user-message"
          [] tag = "rounded"     -> ".message 18px, button 24px, .chat-form input 24px"]

\* the place in css of the comment the base stylesheet follows
BaseStart(css) ==
    Min({h \in 1..Len(css) : css[h] = CssChunk("comment", "Base styles")}
            \cup {Len(css) + 1})

\* what css holds after the base stylesheet
AfterBase(css, base) ==
    SubSeq(css, BaseStart(css) + Len(base) + 1, Len(css))

\* css is a header, then the base stylesheet, then something
HeaderThenBase(css, base) ==
    /\ BaseStart(css) <= Len(css)
    /\ SubSeq(css, BaseStart(css) + 1, BaseStart(css) + Len(base)) = base

\* the rules in a piece of a stylesheet, in their order
RECURSIVE RulesIn(_)
RulesIn(piece) ==
    IF piece = <<>>
    THEN <<>>
    ELSE (IF Head(piece).k = "rules" THEN <<Head(piece).v>> ELSE <<>>)
             \o RulesIn(Tail(piece))

\* C13: for each of the five style tags the stylesheet is the header, then
\* the base stylesheet, then the block of that tag, in this order, and what
\* follows the base holds the block of no other tag.
C13_BlockOfTheTagOnly ==
    (gpc = "returned" /\ font_style.style \in DOMAIN TagRules) =>
        /\ cssFile.exists
        /\ HeaderThenBase(cssFile.text, BaseCssOf(baseCss))
        /\ RulesIn(AfterBase(cssFile.text, BaseCssOf(baseCss)))
               = <<TagRules[font_style.style]>>
        /\ cssFile.text[Len(cssFile.text)]
               = CssChunk("rules", TagRules[font_style.style])

\* the style rounded was composed over a base stylesheet of two chunks
C13_Witness ==
    /\ gpc = "returned"
    /\ font_style.style = "rounded"
    /\ baseCss.exists
    /\ Len(baseCss.text) = 2
    /\ cssFile.text[Len(cssFile.text)].v = TagRules["rounded"]
    /\ Len(cssFile.text) = BaseStart(cssFile.text) + 4

ThemeRows ==
    {<<"sky", "#0EA5E9", "#F0F9FF", "#0C4A6E">>,
     <<"forest", "#22C55E", "#F0FDF4", "#14532D">>,
     <<"lavender", "#8B5CF6", "#F5F3FF", "#4C1D95">>,
     <<"sunset", "#F59E0B", "#FFFBEB", "#78350F">>,
     <<"ocean", "#0891B2", "#ECFEFF", "#155E75">>}

\* the font catalog: name, font family, style tag
FontRows ==
    {<<"Modern", "Inter, system-ui, sans-serif", "clean">>,
     <<"Classic", "Georgia, serif", "traditional">>,
     <<"Minimal", "Roboto, Arial, sans-serif", "minimal">>,
     <<"Technical", "JetBrains Mono, monospace", "code">>,
     <<"Friendly", "Quicksand, sans-serif", "rounded">>}

\* the values the header of css gives the custom property prop
HeaderValues(css, prop) ==
    {css[h].v : h \in {i \in 1..(BaseStart(css) - 1) : css[i].k = prop}}

\* C15: for every theme and every font of the catalogs, the resolved
\* configuration has the colours and the font family of the selected
\* entries, and the header of the stylesheet defines the four custom
\* properties with exactly those values; theme forest with font Technical
\* gives #22C55E in both and the rules of the style code.
C15_SelectionsResolved ==
    /\ main_config # NoObj =>
           /\ \E t \in ThemeRows :
                  /\ theme_name = t[1]
                  /\ main_config["theme_name"] = t[1]
                  /\ main_config["primary_color"] = t[2]
                  /\ main_config["background_color"] = t[3]
                  /\ main_config["text_color"] = t[4]
           /\ \E f \in FontRows :
                  /\ font_style.name = f[1]
                  /\ main_config["font_name"] = f[1]
                  /\ main_config["font_family"] = f[2]
                  /\ main_config["font_style"] = f[3]
    /\ cssFile.exists =>
           /\ HeaderValues(cssFile.text, "--primary-color")
                  = {main_config["primary_color"]}
           /\ HeaderValues(cssFile.text, "--background-color")
                  = {main_config["background_color"]}
           /\ HeaderValues(cssFile.text, "--text-color")
                  = {main_config["text_color"]}
           /\ HeaderValues(cssFile.text, "--font-family")
                  = {main_config["font_family"]}
    /\ (cssFile.exists /\ theme_name = "forest" /\ font_style.name = "Technical") =>
           /\ main_config["primary_color"] = "#22C55E"
           /\ CssChunk("--primary-color", "#22C55E") \in Range(cssFile.text)
           /\ cssFile.text[Len(cssFile.text)] = CssChunk("rules", TagRules["code"])

\* a run that chose the theme ocean and the font Friendly has completed
C15_Witness ==
    /\ mpc = "done"
    /\ theme_name = "ocean"
    /\ font_style.style = "rounded"
    /\ main_config["text_color"] = "#155E75"
    /\ CssChunk("--text-color", "#155E75") \in Range(cssFile.text)
    /\ CssChunk("--font-family", "Quicksand, sans-serif") \in Range(cssFile.text)

(***************************************************************************)
(* More claims about get_llm_parameters.                                   *)
(***************************************************************************)
\* the fenced json blocks of text: an opening fence and the next three
\* backquotes after it, as <<opening, closing>>
FencedBlocks(text) ==
    {b \in (1..Len(text)) \X (1..Len(text)) :
        /\ b[1] < b[2]
        /\ text[b[1]] = FenceJson
        /\ text[b[2]] \in {Fence, FenceJson}
        /\ \A j \in (b[1] + 1)..(b[2] - 1) : text[j] \notin {Fence, FenceJson}}

\* what get_llm_parameters makes of s when s is all it parses
ParamsOfJson(s) ==
    LET parsed == JsonLoads(s)
    IN  CASE parsed.kind = "obj"  -> MergeDefaults(parsed.v)
          [] parsed.kind = "keys" -> ListOfDefaultKeys
          [] OTHER                -> DEFAULT_LLM_PARAMS

\* C16: when the text has a fenced json block, the result is what the
\* interior of the first such block gives, whatever the rest of the text is
\* and also when the interior is malformed; when it has none, the result
\* is what the entire text gives.
C16_FencedInteriorFirst ==
    ParamsReturnedFromText =>
        LET text   == llmContent.text
            blocks == FencedBlocks(text)
            first  == CHOOSE b \in blocks : \A c \in blocks : b[1] <= c[1]
        IN  IF blocks # {}
            THEN llm_params = ParamsOfJson(SubSeq(text, first[1] + 1, first[2] - 1))
            ELSE llm_params = ParamsOfJson(text)

\* the first block held an object with temperature, and three more
\* backquotes and an object with seed came after it
C16_Witness ==
    /\ ParamsReturnedFromText
    /\ Len(llmContent.text) = 4
    /\ llmContent.text[1] = FenceJson
    /\ llmContent.text[2] = JsonObj([k \in {"temperature"} |-> "0.2"])
    /\ llmContent.text[3] = Fence
    /\ llmContent.text[4] \in {Fence, JsonObj([k \in {"seed"} |-> "0.2"])}
    /\ llm_params["temperature"] = "0.2"
    /\ "seed" \notin DOMAIN llm_params

(***************************************************************************)
(* Claims about OllamaLLM.generate_response.                               *)
(***************************************************************************)
\* the backend call of generate_response is over
Posted == cpc \in {"returned", "raised"} /\ payload # NoObj

IsErrorString(r) ==
    Len(r) >= 1 /\ r[1] = "Error generating response: "

\* the response field of a JSON object, the empty string when it has none
ResponseField(body) ==
    IF "response" \in DOMAIN body.v THEN body.v["response"] ELSE ""

\* C18 as the specification states it: no failure of the backend call
\* makes generate_response raise; a connection error, a status that is not
\* 2xx, a body that is not JSON or not an object each give a string that
\* begins with "Error generating response:", and a successful call gives
\* the response field of the body, the empty string when it is absent.
C18_Non2xxIsAnError ==
    Posted =>
        LET failure == \/ ~reply.sent
                       \/ reply.status \notin 200..299
                       \/ reply.body.kind # "object"
        IN  /\ cpc = "returned"
            /\ failure => IsErrorString(result)
            /\ ~failure => result = <<ResponseField(reply.body)>>

\* C18, amended: as above, with a status from 400 to 599 in the place of a
\* status that is not 2xx; a response of any other status whose body is a
\* JSON object gives the response field of the body.
C18_FailuresBecomeErrorStrings ==
    Posted =>
        LET failure == \/ ~reply.sent
                       \/ reply.status \in 400..599
                       \/ reply.body.kind # "object"
        IN  /\ cpc = "returned"
            /\ failure => IsErrorString(result)
            /\ ~failure => result = <<ResponseField(reply.body)>>

\* a response of status 200 whose body is a JSON array gave the error string
C18_Witness ==
    /\ Posted
    /\ reply.sent
    /\ reply.status = 200
    /\ reply.body.kind = "array"
    /\ cpc = "returned"
    /\ IsErrorString(result)

\* the names of the fields the method sets itself
BodyFields == {"model", "prompt", "stream", "system", "context"}

\* what the claim says of the body, for the maps and the call of the state
BodyAsClaimed ==
    /\ payload["model"] = MODEL_NAME
    /\ payload["prompt"] = call.prompt
    /\ payload["stream"] = "False"
    /\ \A k \in DOMAIN DEFAULT_PARAMS :
           /\ k \in DOMAIN payload
           /\ payload[k] = IF k \in DOMAIN call.kwargs
                           THEN call.kwargs[k]
                           ELSE DEFAULT_PARAMS[k]
    /\ payload["system"] = IF call.system_prompt \in {"None", ""}
                           THEN LLM_DEFAULT_SYSTEM_PROMPT
                           ELSE call.system_prompt
    /\ IF call.context \in {"None", "[]"}
       THEN "context" \notin DOMAIN payload
       ELSE "context" \in DOMAIN payload /\ payload["context"] = call.context

\* C19 as the specification states it: for every configured parameter map
\* and every keyword override, the body has the client's model, the
\* caller's prompt, stream false, each configured parameter (a keyword
\* override of its name going before it), the supplied system prompt or the
\* default one, and a context only when one is supplied.
C19_BodyForEveryMap ==
    cpc \in {"posting", "returned"} => BodyAsClaimed

\* C19, amended: the same, for every configured parameter map that has no
\* key model, prompt, stream, system or context and every keyword override
\* that is not named model or stream.
C19_BodyUnlessFieldNamesClash ==
    (/\ cpc \in {"posting", "returned"}
     /\ DOMAIN DEFAULT_PARAMS \cap BodyFields = {}
     /\ DOMAIN call.kwargs \cap {"model", "stream"} = {}) => BodyAsClaimed

\* a call with a context, no system prompt, and overrides named temperature
\* and system, over a configured temperature
C19_Witness ==
    /\ cpc = "posting"
    /\ DOMAIN DEFAULT_PARAMS = {"temperature"}
    /\ DOMAIN call.kwargs = {"temperature", "system"}
    /\ call.system_prompt = ""
    /\ call.context = "[turn]"
    /\ payload["temperature"] = "override"
    /\ payload["system"] = LLM_DEFAULT_SYSTEM_PROMPT
    /\ payload["context"] = "[turn]"

(***************************************************************************)
(* Claims about the persisted configuration.                               *)
(***************************************************************************)
\* C20: in every run that completes generation, llm_config.json holds the
\* prompt that get_system_prompt returned, the parameter map that
\* get_llm_parameters returned, which has the six default keys, and a
\* metadata object with created_at, description and version "1.0".
C20_PersistedConfigComplete ==
    mpc = "done" =>
        /\ llmConfigFile.exists
        /\ llmConfigFile.system_prompt = system_prompt
        /\ llmConfigFile.parameters = llm_params
        /\ DefaultKeys \subseteq DOMAIN llmConfigFile.parameters
        /\ DOMAIN llmConfigFile.metadata = {"created_at", "description", "version"}
        /\ llmConfigFile.metadata.version = "1.0"

(***************************************************************************)
(* Claims about the configuration map and the module's tables.             *)
(***************************************************************************)
\* C21: the configuration map and the tables are read-only after
\* construction: no step of a run (the parameter resolution with its
\* fallback and merge paths, the stylesheet composition, any generation
\* step) changes the config map once it is built, or THEME_COLORS,
\* FONT_STYLES, OLLAMA_MODELS, DEFAULT_SYSTEM_PROMPT or DEFAULT_LLM_PARAMS,
\* or the entries of the tables that the menus handed out.
C21_ConfigAndRegistriesReadOnly ==
    [][/\ registries' = registries
       /\ main_config # NoObj => main_config' = main_config
       /\ theme_colors # NoObj => theme_colors' = theme_colors
       /\ font_style # NoObj => font_style' = font_style]_vars

\* a completed run whose parameter file held an object without the six
\* default keys, so that the merge assigned all six
C21_Witness ==
    /\ mpc = "done"
    /\ llmContent.ok
    /\ ParsedParams.kind = "obj"
    /\ DOMAIN MergeWrites(ParsedParams).items = DefaultKeys
    /\ llm_params # DEFAULT_LLM_PARAMS
    /\ main_config # NoObj
    /\ registries = Registries

(***************************************************************************)
(* Claims about files without placeholders.                                *)
(***************************************************************************)
\* C22: for every source file that holds the placeholder of no key of the
\* configuration map, copy_and_update_template_files writes a target file
\* whose content is identical to the content of the source file.
C22_TokenFreeFilesCopiedUnchanged ==
    \A p \in DOMAIN tgtTree :
        ~HasPlaceholder(srcTree[p], config) => tgtTree[p] = srcTree[p]

(***************************************************************************)
(* Claims about create_directory_structure.                                *)
(***************************************************************************)
\* C23: when the target directory exists and the overwrite is confirmed,
\* create_directory_structure removes the whole old tree before it makes
\* the skeleton: when it returns the target holds the directories of the
\* skeleton and nothing else, and no file or directory of the old tree is
\* in the generated output.
C23_OverwriteRemovesOldTree ==
    "rmtree target" \in fsLog =>
        /\ (mpc = "generate" /\ step = 1) => targetDir = MakeSkeleton(NoDir)
        /\ (targetDir.entries \cap PreviousEntries) \subseteq SkeletonDirs

\* a run over an old tree that was confirmed and completed
C23_Witness ==
    /\ mpc = "done"
    /\ "rmtree target" \in fsLog
    /\ targetDir.exists
    /\ "notes.txt" \notin targetDir.entries
    /\ SkeletonDirs \subseteq targetDir.entries

(***************************************************************************)
(* Claims about the hand-off files.                                        *)
(***************************************************************************)
\* C24: the hand-off file is consumed once and not retained: on every path
\* through get_system_prompt and get_llm_parameters taken after the file
\* was copied into the working directory, the file no longer exists when
\* the function returns.
C24_HandOffFileNotRetained ==
    /\ (ppc = "returned" /\ "write system_prompt.md" \in fsLog) =>
           ~promptFile.exists
    /\ (lpc = "returned" /\ "write llm_parameters.json" \in fsLog) =>
           ~paramsFile.exists

(***************************************************************************)
(* Claims about update_config.py.                                          *)
(***************************************************************************)
\* the requests of a command line that main rejects: a config file that is
\* missing or no JSON, a prompt file that is asked for and is missing or
\* cannot be read, an argument of --param without "="
ConfigFileBad == ~llmConfigFile.exists \/ llmConfigFile = InvalidJson

PromptFileBad ==
    /\ args.prompt_file # "None"
    /\ ~(prompt_file.exists /\ prompt_file.readable)

SomeParamMalformed == \E i \in 1..Len(args.param) : ~args.param[i].eq

\* C25: main of update_config.py writes the configuration file only after
\* every requested update is validated and applied: when the config file
\* is missing or invalid JSON, the prompt file is missing or unreadable, or
\* an argument of --param has no "=", the process exits with status 1 and
\* the file on disk is unchanged, also when earlier arguments of --param
\* were valid.
C25_RejectedBeforeAnyWrite ==
    upc # "idle" =>
        /\ ConfigFileBad =>
               fsLog = {} /\ upc \in {"load", "exit(1)"}
        /\ PromptFileBad =>
               fsLog = {} /\ upc \in {"load", "prompt", "exit(1)"}
        /\ SomeParamMalformed =>
               fsLog = {} /\ upc \in {"load", "prompt", "params", "exit(1)"}

\* a valid first argument of --param, a second one without "=", a config
\* that was loaded: the process has exited and nothing was written
C25_Witness ==
    /\ upc = "exit(1)"
    /\ Len(args.param) = 2
    /\ args.param[1].eq
    /\ ~args.param[2].eq
    /\ upd_config # NoObj
    /\ IsJson(llmConfigFile)
    /\ fsLog = {}

\* the config that main loaded: the file is as it was until it is saved
LoadedConfig == ConfigOf(llmConfigFile)

\* the prompt that the command line asks for, if it asks for one
RequestedPrompt ==
    IF args.prompt.given /\ args.prompt.text # <<>>
    THEN args.prompt.text
    ELSE IF args.prompt_file # "None"
    THEN Strip(prompt_file.text)
    ELSE LoadedConfig.system_prompt

\* C26: update_parameters changes the parameter keys named in the update
\* map and nothing else: each named key gets the given value, and is added
\* when it was absent; every other parameter, the system prompt and the
\* metadata stay.  update_system_prompt changes system_prompt alone.  The
\* same update applied twice gives what it gives applied once.
C26_UpdatesChangeOnlyWhatTheyName ==
    /\ upc # "raised"
    /\ upc = "params" =>
           /\ upd_config.system_prompt = RequestedPrompt
           /\ upd_config.parameters = LoadedConfig.parameters
           /\ upd_config.metadata = LoadedConfig.metadata
           /\ update_system_prompt(upd_config, RequestedPrompt) = upd_config
    /\ upc = "save" =>
           /\ DOMAIN upd_config.parameters =
                  DOMAIN LoadedConfig.parameters \cup DOMAIN param_updates
           /\ \A k \in DOMAIN upd_config.parameters :
                  upd_config.parameters[k] =
                      IF k \in DOMAIN param_updates
                      THEN param_updates[k]
                      ELSE LoadedConfig.parameters[k]
           /\ upd_config.system_prompt = RequestedPrompt
           /\ upd_config.metadata = LoadedConfig.metadata
           /\ update_parameters(upd_config, param_updates) = upd_config

=============================================================================
